---- MODULE Spec2Model ----
(***************************************************************************)
(* IntelliGrid: battery physics, rule-based decision engine, MILP engine   *)
(* and the runners that step a day of environments through them.           *)
(*                                                                         *)
(* Numbers.  The code computes in floating point; the model computes in   *)
(* exact arithmetic on integers.  An energy is an integer number of       *)
(* 1/KWH kWh, a price an integer number of 1/100 DZD, a state of charge   *)
(* an integer number of percent.  KWH is a multiple of 600 = lcm(24, 25), *)
(* and every energy that is multiplied or divided by an efficiency        *)
(* (24/25) is drawn so that the result is again an integer: ExactBattery  *)
(* and ExactRun state that no such operation ever dropped a remainder.    *)
(***************************************************************************)
EXTENDS Integers, Sequences, FiniteSets, TLC

VARIABLES
    battery,          \* the Battery: capacity_kwh and charge_kwh
    last,             \* the last call made on the battery's own interface
    mode,             \* the adapter's mode: "rule" or "milp"
    pc,               \* where the run is
    environments,     \* the environments of the run
    initial_battery,  \* the BatteryState at the entry of the run
    actions,          \* the schedule optimize_schedule returned
    result,           \* the SimulationResult being built
    steps,            \* per hour: what was decided on, called and returned
    seed,             \* the seed the simulator was constructed with
    engine,           \* the class of the adapter's _engine
    previous,         \* what the runs before this one returned
    solved,           \* what the solver answered, and to which problem
    cls,              \* ModelManager's class attributes
    objects,          \* the ModelManager instances created so far
    workers,          \* per worker: where its ModelManager() call is
    modules,          \* sys.modules, the imports in progress, AI_AVAILABLE
    stack             \* the frames of the forecast lookup in progress

vars == <<battery, last, mode, pc, environments, initial_battery, actions,
          result, steps, seed, engine, previous, solved, cls, objects,
          workers, modules, stack>>

\* the adapter's construction arguments and the caller's memory
adapterVars == <<seed, engine, previous>>
\* the forecast provider: its singleton, its modules and its lookups
managerVars == <<cls, objects, workers, modules, stack>>

\* energy units in one kWh: 600 = lcm(24, 25), times 40 steps of 0.025 kWh
KWH == 600 * 40

Min2(a, b) == IF a <= b THEN a ELSE b
Max2(a, b) == IF a >= b THEN a ELSE b
Abs(x) == IF x < 0 THEN -x ELSE x

(***************************************************************************)
(* src/core/battery.py                                                     *)
(***************************************************************************)
\* CHARGE_EFFICIENCY = DISCHARGE_EFFICIENCY = 0.96 = 24/25
EFFICIENCY_NUM == 24
EFFICIENCY_DEN == 25
\* MIN_SOC = 0.20 and MAX_SOC = 0.95, in percent
MIN_SOC == 20
MAX_SOC == 95
\* MAX_CHARGE_RATE_KW = MAX_DISCHARGE_RATE_KW = 5.0 (kWh over one hour)
MAX_CHARGE_RATE_KW == 5
MAX_DISCHARGE_RATE_KW == 5

\* x * 0.96 and x / 0.96
TimesEfficiency(x) == (x * EFFICIENCY_NUM) \div EFFICIENCY_DEN
OverEfficiency(x) == (x * EFFICIENCY_DEN) \div EFFICIENCY_NUM
ExactTimesEfficiency(x) == (x * EFFICIENCY_NUM) % EFFICIENCY_DEN = 0
ExactOverEfficiency(x) == (x * EFFICIENCY_DEN) % EFFICIENCY_NUM = 0

\* capacity * soc for a state of charge given in percent
LevelAt(capacity_kwh, soc) == (capacity_kwh * soc) \div 100

\* Battery.__init__: the arguments it accepts
Accepted(capacity_kwh, initial_soc) ==
    /\ ~(capacity_kwh <= 0)
    /\ 0 <= initial_soc /\ initial_soc <= 100

\* Battery.__init__: the object it builds from accepted arguments
NewBattery(capacity_kwh, initial_soc) ==
    [capacity_kwh |-> capacity_kwh,
     charge_kwh   |-> LevelAt(capacity_kwh, initial_soc)]

\* Battery.state: the frozen BatteryState; soc = charge_kwh / capacity_kwh is
\* kept as that quotient and compared by cross-multiplication
state(b) == [charge_kwh |-> b.charge_kwh, capacity_kwh |-> b.capacity_kwh]
SocBelow(s, pct) == s.charge_kwh * 100 < pct * s.capacity_kwh
SocAbove(s, pct) == s.charge_kwh * 100 > pct * s.capacity_kwh

\* charge without the limit that keeps the level under MAX_SOC
charge_unlimited(b, available_kwh) ==
    IF available_kwh <= 0
    THEN [battery |-> b, energy_consumed |-> 0, energy_stored |-> 0]
    ELSE LET energy_to_convert == Min2(available_kwh, MAX_CHARGE_RATE_KW * KWH)
             energy_stored == TimesEfficiency(energy_to_convert)
         IN  [battery |-> [b EXCEPT !.charge_kwh = @ + energy_stored],
              energy_consumed |-> energy_to_convert,
              energy_stored |-> energy_stored]

\* charge without the early return on an amount that is not positive
charge_unguarded(b, available_kwh) ==
    LET max_storable == LevelAt(b.capacity_kwh, MAX_SOC) - b.charge_kwh
        max_convertible == OverEfficiency(max_storable)
        energy_to_convert ==
            Min2(available_kwh, Min2(max_convertible, MAX_CHARGE_RATE_KW * KWH))
        energy_stored == TimesEfficiency(energy_to_convert)
    IN  [battery |-> [b EXCEPT !.charge_kwh = @ + energy_stored],
         energy_consumed |-> energy_to_convert,
         energy_stored |-> energy_stored]

\* Battery.charge: the battery after the call and the pair it returns
charge(b, available_kwh) ==
    IF available_kwh <= 0
    THEN [battery |-> b, energy_consumed |-> 0, energy_stored |-> 0]
    ELSE LET max_storable == LevelAt(b.capacity_kwh, MAX_SOC) - b.charge_kwh
             max_convertible == OverEfficiency(max_storable)
             energy_to_convert ==
                 Min2(available_kwh,
                      Min2(max_convertible, MAX_CHARGE_RATE_KW * KWH))
             energy_stored == TimesEfficiency(energy_to_convert)
         IN  [battery |-> [b EXCEPT !.charge_kwh = @ + energy_stored],
              energy_consumed |-> energy_to_convert,
              energy_stored |-> energy_stored]

\* discharge without the limit that keeps the level above MIN_SOC
discharge_unlimited(b, demand_kwh) ==
    IF demand_kwh <= 0
    THEN [battery |-> b, energy_drawn |-> 0, energy_delivered |-> 0]
    ELSE LET energy_needed == OverEfficiency(demand_kwh)
             energy_to_draw == Min2(energy_needed, MAX_DISCHARGE_RATE_KW * KWH)
             energy_delivered == TimesEfficiency(energy_to_draw)
         IN  [battery |-> [b EXCEPT !.charge_kwh = @ - energy_to_draw],
              energy_drawn |-> energy_to_draw,
              energy_delivered |-> energy_delivered]

\* discharge that draws what is delivered, without the conversion loss
discharge_lossless(b, demand_kwh) ==
    IF demand_kwh <= 0
    THEN [battery |-> b, energy_drawn |-> 0, energy_delivered |-> 0]
    ELSE LET max_drawable == b.charge_kwh - LevelAt(b.capacity_kwh, MIN_SOC)
             energy_to_draw ==
                 Min2(demand_kwh,
                      Min2(max_drawable, MAX_DISCHARGE_RATE_KW * KWH))
         IN  [battery |-> [b EXCEPT !.charge_kwh = @ - energy_to_draw],
              energy_drawn |-> energy_to_draw,
              energy_delivered |-> energy_to_draw]

\* Battery.discharge: the battery after the call and the pair it returns
discharge(b, demand_kwh) ==
    IF demand_kwh <= 0
    THEN [battery |-> b, energy_drawn |-> 0, energy_delivered |-> 0]
    ELSE LET max_drawable == b.charge_kwh - LevelAt(b.capacity_kwh, MIN_SOC)
             energy_needed == OverEfficiency(demand_kwh)
             energy_to_draw ==
                 Min2(energy_needed,
                      Min2(max_drawable, MAX_DISCHARGE_RATE_KW * KWH))
             energy_delivered == TimesEfficiency(energy_to_draw)
         IN  [battery |-> [b EXCEPT !.charge_kwh = @ - energy_to_draw],
              energy_drawn |-> energy_to_draw,
              energy_delivered |-> energy_delivered]

\* reset without the check of its argument
reset_unchecked(b, soc) ==
    [battery |-> [b EXCEPT !.charge_kwh = LevelAt(b.capacity_kwh, soc)],
     raised |-> FALSE]

\* Battery.reset: raises on a soc outside [0, 1] and leaves the battery as it was
reset(b, soc) ==
    IF ~(0 <= soc /\ soc <= 100)
    THEN [battery |-> b, raised |-> TRUE]
    ELSE [battery |-> [b EXCEPT !.charge_kwh = LevelAt(b.capacity_kwh, soc)],
          raised |-> FALSE]

(***************************************************************************)
(* src/utils/config.py and src/data/models.py                              *)
(***************************************************************************)
\* PRICING and GRID_EXPORT_PRICE, in 1/100 DZD per kWh
PRICING_PEAK == 678
PRICING_NORMAL == 565
PRICING_NIGHT == 480
GRID_EXPORT_PRICE == 400

get_price_for_hour(hour) ==
    IF 18 <= hour /\ hour < 22 THEN PRICING_PEAK
    ELSE IF hour >= 23 \/ hour < 7 THEN PRICING_NIGHT
    ELSE PRICING_NORMAL

\* Action, each member written as its value
CHARGE_BATTERY == "charge_battery"
DISCHARGE_BATTERY == "discharge_battery"
SELL_TO_GRID == "sell_to_grid"
USE_GRID == "use_grid"
IDLE == "idle"
Action == {CHARGE_BATTERY, DISCHARGE_BATTERY, SELL_TO_GRID, USE_GRID, IDLE}

\* EnvironmentState
EnvironmentState(hour, solar_kwh, load_kwh, price) ==
    [hour |-> hour, solar_kwh |-> solar_kwh, load_kwh |-> load_kwh,
     price |-> price]

(***************************************************************************)
(* src/engine/decision_engine.py                                           *)
(***************************************************************************)
\* DecisionEngine.__init__: peak hours 18..21 and the thresholds, in percent
peak_hours == 18 .. 21
peak_soc_threshold == 40
min_soc_threshold == 20
max_soc_threshold == 95

\* DecisionEngine._handle_surplus
handle_surplus(surplus, b) ==
    IF SocBelow(b, max_soc_threshold) THEN CHARGE_BATTERY ELSE SELL_TO_GRID

\* _handle_deficit with the minimum threshold compared by >=
handle_deficit_inclusive(deficit, b, hour, price) ==
    LET is_peak == hour \in peak_hours
    IN  IF is_peak /\ SocAbove(b, peak_soc_threshold) THEN DISCHARGE_BATTERY
        ELSE IF ~SocBelow(b, min_soc_threshold) THEN DISCHARGE_BATTERY
        ELSE USE_GRID

\* _handle_deficit keeping the battery above peak_soc_threshold in a peak hour
handle_deficit_peak_reserve(deficit, b, hour, price) ==
    LET is_peak == hour \in peak_hours
    IN  IF is_peak
        THEN IF SocAbove(b, peak_soc_threshold) THEN DISCHARGE_BATTERY
             ELSE USE_GRID
        ELSE IF SocAbove(b, min_soc_threshold) THEN DISCHARGE_BATTERY
        ELSE USE_GRID

\* DecisionEngine._handle_deficit
handle_deficit(deficit, b, hour, price) ==
    LET is_peak == hour \in peak_hours
    IN  IF is_peak /\ SocAbove(b, peak_soc_threshold) THEN DISCHARGE_BATTERY
        ELSE IF SocAbove(b, min_soc_threshold) THEN DISCHARGE_BATTERY
        ELSE USE_GRID

\* decide taking an hour in balance for a deficit
decide_balance_as_deficit(env, b) ==
    LET net_energy == env.solar_kwh - env.load_kwh
    IN  IF net_energy > 0
        THEN handle_surplus(net_energy, b)
        ELSE handle_deficit(Abs(net_energy), b, env.hour, env.price)

\* DecisionEngine.decide
decide(env, b) ==
    LET net_energy == env.solar_kwh - env.load_kwh
    IN  IF net_energy >= 0
        THEN handle_surplus(net_energy, b)
        ELSE handle_deficit(Abs(net_energy), b, env.hour, env.price)

(***************************************************************************)
(* src/core/simulation_runner.py and src/core/hybrid_adapter.py: one hour  *)
(***************************************************************************)
\* what applying an action gives: the battery after it, the pair returned,
\* and which battery call was made with which argument and result
Applied(b, grid_import, grid_export, call, arg, first, second) ==
    [battery |-> b, grid_import |-> grid_import, grid_export |-> grid_export,
     call |-> call, arg |-> arg, first |-> first, second |-> second]

\* _apply_action importing what the battery did not draw, in place of what it
\* did not deliver
apply_action_drawn(action, env, b) ==
    LET net == env.solar_kwh - env.load_kwh
    IN  IF action = CHARGE_BATTERY
        THEN IF net > 0
             THEN LET r == charge(b, net)
                  IN  Applied(r.battery, 0, 0, "charge", net,
                              r.energy_consumed, r.energy_stored)
             ELSE Applied(b, 0, 0, "none", 0, 0, 0)
        ELSE IF action = DISCHARGE_BATTERY
        THEN IF net < 0
             THEN LET demand == Abs(net)
                      r == discharge(b, demand)
                      remaining == demand - r.energy_drawn
                  IN  Applied(r.battery, remaining, 0, "discharge", demand,
                              r.energy_drawn, r.energy_delivered)
             ELSE Applied(b, 0, 0, "none", 0, 0, 0)
        ELSE IF action = SELL_TO_GRID
        THEN IF net > 0
             THEN Applied(b, 0, net, "none", 0, 0, 0)
             ELSE Applied(b, 0, 0, "none", 0, 0, 0)
        ELSE IF action = USE_GRID
        THEN IF net < 0
             THEN Applied(b, Abs(net), 0, "none", 0, 0, 0)
             ELSE Applied(b, 0, 0, "none", 0, 0, 0)
        ELSE Applied(b, 0, 0, "none", 0, 0, 0)

\* SimulationRunner._apply_action
apply_action(action, env, b) ==
    LET net == env.solar_kwh - env.load_kwh
    IN  IF action = CHARGE_BATTERY
        THEN IF net > 0
             THEN LET r == charge(b, net)
                  IN  Applied(r.battery, 0, 0, "charge", net,
                              r.energy_consumed, r.energy_stored)
             ELSE Applied(b, 0, 0, "none", 0, 0, 0)
        ELSE IF action = DISCHARGE_BATTERY
        THEN IF net < 0
             THEN LET demand == Abs(net)
                      r == discharge(b, demand)
                      remaining == demand - r.energy_delivered
                  IN  Applied(r.battery, remaining, 0, "discharge", demand,
                              r.energy_drawn, r.energy_delivered)
             ELSE Applied(b, 0, 0, "none", 0, 0, 0)
        ELSE IF action = SELL_TO_GRID
        THEN IF net > 0
             THEN Applied(b, 0, net, "none", 0, 0, 0)
             ELSE Applied(b, 0, 0, "none", 0, 0, 0)
        ELSE IF action = USE_GRID
        THEN IF net < 0
             THEN Applied(b, Abs(net), 0, "none", 0, 0, 0)
             ELSE Applied(b, 0, 0, "none", 0, 0, 0)
        ELSE Applied(b, 0, 0, "none", 0, 0, 0)

\* _apply_action comparing action.value with a string that is no value of
\* Action for SELL_TO_GRID
hybrid_apply_action_misspelt(action, env, b) ==
    LET net == env.solar_kwh - env.load_kwh
        value == action
    IN  IF value = "charge_battery"
        THEN IF net > 0
             THEN LET r == charge(b, net)
                  IN  Applied(r.battery, 0, 0, "charge", net,
                              r.energy_consumed, r.energy_stored)
             ELSE Applied(b, 0, 0, "none", 0, 0, 0)
        ELSE IF value = "discharge_battery"
        THEN IF net < 0
             THEN LET demand == Abs(net)
                      r == discharge(b, demand)
                      remaining == demand - r.energy_delivered
                  IN  Applied(r.battery, remaining, 0, "discharge", demand,
                              r.energy_drawn, r.energy_delivered)
             ELSE Applied(b, 0, 0, "none", 0, 0, 0)
        ELSE IF value = "sell"
        THEN IF net > 0
             THEN Applied(b, 0, net, "none", 0, 0, 0)
             ELSE Applied(b, 0, 0, "none", 0, 0, 0)
        ELSE IF value = "use_grid"
        THEN IF net < 0
             THEN Applied(b, Abs(net), 0, "none", 0, 0, 0)
             ELSE Applied(b, 0, 0, "none", 0, 0, 0)
        ELSE Applied(b, 0, 0, "none", 0, 0, 0)

\* HybridSimulationAdapter._apply_action, which compares action.value
hybrid_apply_action(action, env, b) ==
    LET net == env.solar_kwh - env.load_kwh
        value == action
    IN  IF value = "charge_battery"
        THEN IF net > 0
             THEN LET r == charge(b, net)
                  IN  Applied(r.battery, 0, 0, "charge", net,
                              r.energy_consumed, r.energy_stored)
             ELSE Applied(b, 0, 0, "none", 0, 0, 0)
        ELSE IF value = "discharge_battery"
        THEN IF net < 0
             THEN LET demand == Abs(net)
                      r == discharge(b, demand)
                      remaining == demand - r.energy_delivered
                  IN  Applied(r.battery, remaining, 0, "discharge", demand,
                              r.energy_drawn, r.energy_delivered)
             ELSE Applied(b, 0, 0, "none", 0, 0, 0)
        ELSE IF value = "sell_to_grid"
        THEN IF net > 0
             THEN Applied(b, 0, net, "none", 0, 0, 0)
             ELSE Applied(b, 0, 0, "none", 0, 0, 0)
        ELSE IF value = "use_grid"
        THEN IF net < 0
             THEN Applied(b, Abs(net), 0, "none", 0, 0, 0)
             ELSE Applied(b, 0, 0, "none", 0, 0, 0)
        ELSE Applied(b, 0, 0, "none", 0, 0, 0)

\* a cost that bills the export in place of crediting it
hour_cost_export_billed(grid_import, grid_export, price) ==
    (grid_import * price) + (grid_export * GRID_EXPORT_PRICE)

\* cost = grid_import * price - grid_export * GRID_EXPORT_PRICE
hour_cost(grid_import, grid_export, price) ==
    (grid_import * price) - (grid_export * GRID_EXPORT_PRICE)

\* baseline_cost - cost, with baseline_grid = max(0, load - solar)
hour_savings(env, cost) ==
    LET baseline_grid == Max2(0, env.load_kwh - env.solar_kwh)
        baseline_cost == baseline_grid * env.price
    IN  baseline_cost - cost

\* round(x, n): to the nearest multiple of unit, a tie to the even multiple
\* (a tie of the exact value; the float nearest to it decides in the code)
Round(x, unit) ==
    LET q == x \div unit
        r == x % unit
    IN  IF 2 * r < unit THEN q * unit
        ELSE IF 2 * r > unit THEN (q + 1) * unit
        ELSE IF q % 2 = 0 THEN q * unit ELSE (q + 1) * unit

\* two decimals of a kWh and three decimals of a DZD
Round2(x) == Round(x, KWH \div 100)
Round3(x) == Round(x, KWH \div 10)

\* the HourlyData both runners build; battery_soc = round(soc, 2) in percent
HourlyData(env, action, b, grid_import, grid_export, cost, savings) ==
    [hour |-> env.hour,
     solar_production |-> Round2(env.solar_kwh),
     consumption |-> Round2(env.load_kwh),
     battery_level |-> Round2(b.charge_kwh),
     battery_soc |-> Round(b.charge_kwh * 100, b.capacity_kwh) \div b.capacity_kwh,
     grid_usage |-> Round2(grid_import),
     grid_export |-> Round2(grid_export),
     net_energy |-> Round2(env.solar_kwh - env.load_kwh),
     action |-> action,
     grid_price |-> env.price,
     cost |-> Round3(cost),
     savings |-> Round3(savings)]

\* SimulationResult()
SimulationResult ==
    [hourly_data |-> <<>>, total_solar |-> 0, total_consumption |-> 0,
     total_grid_usage |-> 0, total_grid_export |-> 0, total_cost |-> 0,
     total_savings |-> 0]

(***************************************************************************)
(* src/engine/milp_engine.py                                               *)
(*                                                                         *)
(* The solver is CBC behind pulp, which is no code of this repository: it  *)
(* is modelled by what it is called for, returning some solution of the    *)
(* model _build_milp states that minimises its objective.  With            *)
(* s = 0.96 * charge_rate and w = discharge_rate the constraints are those *)
(* of a flow on a path (level[t] = level[t-1] + s[t] - w[t]) whose bounds  *)
(* and cost breakpoints are all multiples of LatticeStep when the initial  *)
(* level, the two SOC bounds, every surplus times 0.96 and every deficit   *)
(* over 0.96 are; the optimal solutions then have their vertices on that   *)
(* lattice, and the model ranges over the lattice.                         *)
(***************************************************************************)
\* 0.2 kWh, the common measure of 5 kWh drawn and 0.96 * 5 kWh stored
LatticeStep == KWH \div 5
MaxSteps == (Max2(MAX_CHARGE_RATE_KW, MAX_DISCHARGE_RATE_KW) * KWH) \div LatticeStep

\* a function as the table of its values
Table(f) == f @@ <<>>

\* the values of one hour's variables when the stored energy changes by k
\* lattice steps: charge_rate or discharge_rate by k's sign, and the least
\* grid_import and grid_export that balance the hour (raising both by the
\* same amount costs price - GRID_EXPORT_PRICE > 0 per unit)
HourVariables(env, previous_charge, k) ==
    LET charge_rate == IF k > 0 THEN OverEfficiency(k * LatticeStep) ELSE 0
        discharge_rate == IF k < 0 THEN (-k) * LatticeStep ELSE 0
        short == (env.load_kwh + charge_rate)
                 - (env.solar_kwh + TimesEfficiency(discharge_rate))
    IN  [charge_rate |-> charge_rate,
         discharge_rate |-> discharge_rate,
         grid_import |-> Max2(short, 0),
         grid_export |-> Max2(-short, 0),
         battery_charge |-> previous_charge
                            + TimesEfficiency(charge_rate) - discharge_rate,
         is_charging |-> IF k > 0 THEN 1 ELSE 0]

\* _build_milp: the bounds of battery_charge
LevelBounds(battery_charge, capacity) ==
    /\ LevelAt(capacity, MIN_SOC) <= battery_charge
    /\ battery_charge <= LevelAt(capacity, MAX_SOC)

\* _build_milp: the bounds of the other decision variables
VariableBounds(v) ==
    /\ 0 <= v.grid_import
    /\ 0 <= v.grid_export
    /\ 0 <= v.charge_rate /\ v.charge_rate <= MAX_CHARGE_RATE_KW * KWH
    /\ 0 <= v.discharge_rate /\ v.discharge_rate <= MAX_DISCHARGE_RATE_KW * KWH
    /\ v.is_charging \in {0, 1}

\* _build_milp: EnergyBalance_t
EnergyBalance(env, v) ==
    env.solar_kwh + TimesEfficiency(v.discharge_rate) + v.grid_import
        = env.load_kwh + v.charge_rate + v.grid_export

\* _build_milp: BatteryDynamics_t
BatteryDynamics(previous_charge, v) ==
    v.battery_charge
        = previous_charge + TimesEfficiency(v.charge_rate) - v.discharge_rate

\* _build_milp: ChargeOnlyIfCharging_t and DischargeOnlyIfNotCharging_t
Complementarity(v) ==
    LET M == Max2(MAX_CHARGE_RATE_KW, MAX_DISCHARGE_RATE_KW) * KWH
    IN  /\ v.charge_rate <= v.is_charging * M
        /\ v.discharge_rate <= (1 - v.is_charging) * M

\* _build_milp: one hour's term of the objective
ObjectiveTerm(env, v) ==
    (v.grid_import * env.price) - (v.grid_export * GRID_EXPORT_PRICE)

\* _determine_action_from_solution looking at the export before the battery
determine_action_export_first(v) ==
    IF v.grid_export > KWH \div 100 THEN SELL_TO_GRID
    ELSE IF v.charge_rate > KWH \div 100 THEN CHARGE_BATTERY
    ELSE IF v.discharge_rate > KWH \div 100 THEN DISCHARGE_BATTERY
    ELSE IF v.grid_import > KWH \div 100 THEN USE_GRID
    ELSE IDLE

\* _determine_action_from_solution, with 0.01 kWh as KWH \div 100
determine_action_from_solution(v) ==
    IF v.charge_rate > KWH \div 100 THEN CHARGE_BATTERY
    ELSE IF v.discharge_rate > KWH \div 100 THEN DISCHARGE_BATTERY
    ELSE IF v.grid_export > KWH \div 100 THEN SELL_TO_GRID
    ELSE IF v.grid_import > KWH \div 100 THEN USE_GRID
    ELSE IDLE

\* one hour, for every change k of the stored energy: whether the hour's
\* constraints other than the bounds of battery_charge hold, by how much
\* battery_charge moves, the hour's objective term and the decoded action
HourTable(env) ==
    Table([k \in (-MaxSteps) .. MaxSteps |->
             LET v == HourVariables(env, 0, k)
             IN  [feasible |-> /\ VariableBounds(v)
                               /\ EnergyBalance(env, v)
                               /\ BatteryDynamics(0, v)
                               /\ Complementarity(v),
                  change |-> v.battery_charge,
                  term |-> ObjectiveTerm(env, v),
                  action |-> determine_action_from_solution(v)]])

\* the lattice levels within the SOC bounds, numbered from 1
NumLevels(capacity) ==
    ((LevelAt(capacity, MAX_SOC) - LevelAt(capacity, MIN_SOC)) \div LatticeStep) + 1
LevelIndex(capacity, level) ==
    ((level - LevelAt(capacity, MIN_SOC)) \div LatticeStep) + 1
LevelOf(capacity, j) == LevelAt(capacity, MIN_SOC) + (j - 1) * LatticeStep

\* the changes within the rate bounds that end within the bounds of
\* battery_charge
ChangeRange(previous_charge, capacity) ==
    Max2(-MaxSteps, 1 - LevelIndex(capacity, previous_charge))
        .. Min2(MaxSteps, NumLevels(capacity) - LevelIndex(capacity, previous_charge))

\* what hour t can do from previous_charge: the changes k that meet the
\* hour's constraints and leave hours t+1.. feasible, each with the
\* objective of hours t.. and the level it ends on; hour is the HourTable of
\* hour t and next[j] the entry of hour t+1 for level j
Options(hour, previous_charge, capacity, next) ==
    { [k |-> k,
       total |-> hour[k].term
                 + next[LevelIndex(capacity, previous_charge + hour[k].change)].least,
       level |-> LevelIndex(capacity, previous_charge + hour[k].change)]
      : k \in { c \in ChangeRange(previous_charge, capacity) :
                  /\ hour[c].feasible
                  /\ LevelBounds(previous_charge + hour[c].change, capacity)
                  /\ next[LevelIndex(capacity,
                                     previous_charge + hour[c].change)].feasible } }

Least(options) ==
    CHOOSE m \in { opt.total : opt \in options } :
        \A opt \in options : m <= opt.total

\* the action lists of hours t.. decoded from the solutions that attain least
Schedules(hour, options, next, least) ==
    UNION { { <<hour[opt.k].action>> \o tail : tail \in next[opt.level].schedules }
            : opt \in { o \in options : o.total = least } }

\* what the solver finds for hours t.. from previous_charge: whether the
\* constraints can be met, the least objective, and the decoded action lists
Entry(hour, previous_charge, capacity, next) ==
    LET options == Options(hour, previous_charge, capacity, next)
    IN  IF options = {}
        THEN [feasible |-> FALSE, least |-> 0, schedules |-> {}]
        ELSE [feasible |-> TRUE, least |-> Least(options),
              schedules |-> Schedules(hour, options, next, Least(options))]

\* the entries of hours t.. for every level, built from those of hours t+1..
RECURSIVE RowAt(_, _, _)
RowAt(envs, capacity, t) ==
    IF t > Len(envs)
    THEN [j \in 1 .. NumLevels(capacity) |->
            [feasible |-> TRUE, least |-> 0, schedules |-> {<<>>}]]
    ELSE LET hour == HourTable(envs[t])
             next == RowAt(envs, capacity, t + 1)
         IN  Table([j \in 1 .. NumLevels(capacity) |->
                      Entry(hour, LevelOf(capacity, j), capacity, next)])

\* model.solve and the decoding loop of optimize_schedule: the solver's
\* status and every action list an optimal solution decodes to
solve(envs, entry) ==
    LET capacity == entry.capacity_kwh
        first == Entry(HourTable(envs[1]), entry.charge_kwh, capacity,
                       RowAt(envs, capacity, 2))
    IN  [status |-> IF first.feasible THEN "Optimal" ELSE "Infeasible",
         least |-> first.least,
         schedules |-> first.schedules]

(***************************************************************************)
(* A Battery under its own interface: constructed from accepted arguments, *)
(* then any sequence of charge, discharge and reset calls.                 *)
(***************************************************************************)
\* 13.5 kWh (the adapters' battery) and 4 kWh
Capacities == {(27 * KWH) \div 2, 4 * KWH}
\* initial_soc and reset's soc, in percent; -10 and 150 are rejected by reset
InitialSocs == {0, 20, 50, 95, 100}
ResetSocs == InitialSocs \cup {-10, 150}
\* available_kwh: multiples of 625 units (0.42, 2.5, 10 and 100 kWh), zero
\* and a negative amount
AvailableAmounts == {-625 * 96, 0, 625 * 16, 625 * 96, 625 * 384, 625 * 3840}
\* demand_kwh: multiples of 576 units (0.6, 2.4, 9.6 and 96 kWh), zero and
\* a negative amount
DemandAmounts == {-576 * 100, 0, 576 * 25, 576 * 100, 576 * 400, 576 * 4000}

\* x of a cycle: multiples of 625 * 24 units (0.625, 2.5, 10 and 100 kWh),
\* of which both x * 0.96 and the draw x are whole, zero and a negative amount
CycleAmounts == {-625 * 96, 0, 625 * 24, 625 * 96, 625 * 384, 625 * 3840}

NoCall == [op |-> "none", arg |-> 0, before |-> 0, first |-> 0, second |-> 0]

NoSnapshot == [charge_kwh |-> 0, capacity_kwh |-> 0]
\* seed None; numpy accepts no negative seed
NoSeed == -1
NoAnswer == [status |-> "none", problem |-> <<>>, actions |-> <<>>]
\* no adapter constructed, nothing solved
NoAdapter ==
    /\ seed = NoSeed
    /\ engine = "none"
    /\ previous = <<>>
    /\ solved = NoAnswer
\* ModelManager as the class statement leaves it, and no worker
\* src/data/simulator.py, src/ai/model_manager.py and the two predictors
ModuleNames ==
    {"simulator", "model_manager", "solar_predictor", "consumption_predictor"}
\* a fresh interpreter: nothing imported, no import in progress
NotImported ==
    [sys_modules |-> [m \in ModuleNames |-> "absent"], importing |-> <<>>,
     AI_AVAILABLE |-> FALSE]

NoManager ==
    /\ cls = [_instance |-> 0, _initialized |-> FALSE]
    /\ objects = <<>>
    /\ workers = <<>>
    /\ modules = NotImported
    /\ stack = <<>>

runVars == <<mode, pc, environments, initial_battery, actions, result, steps,
             adapterVars, solved, managerVars>>
NoRun ==
    /\ mode = "none"
    /\ pc = "none"
    /\ environments = <<>>
    /\ initial_battery = NoSnapshot
    /\ actions = <<>>
    /\ result = SimulationResult
    /\ steps = <<>>
    /\ NoAdapter
    /\ NoManager

InitBattery ==
    /\ \E capacity_kwh \in Capacities, initial_soc \in InitialSocs :
          /\ Accepted(capacity_kwh, initial_soc)
          /\ battery = NewBattery(capacity_kwh, initial_soc)
    /\ last = NoCall
    /\ NoRun

Charge(available_kwh) ==
    LET r == charge(battery, available_kwh)
    IN  /\ battery' = r.battery
        /\ last' = [op |-> "charge", arg |-> available_kwh,
                    before |-> battery.charge_kwh,
                    first |-> r.energy_consumed, second |-> r.energy_stored]
        /\ UNCHANGED runVars

Discharge(demand_kwh) ==
    LET r == discharge(battery, demand_kwh)
    IN  /\ battery' = r.battery
        /\ last' = [op |-> "discharge", arg |-> demand_kwh,
                    before |-> battery.charge_kwh,
                    first |-> r.energy_drawn, second |-> r.energy_delivered]
        /\ UNCHANGED runVars

\* reset on a battery of which every BatteryState handed out is a view
Reset_view(soc) ==
    LET r == reset(battery, soc)
    IN  /\ battery' = r.battery
        /\ last' = [op |-> IF r.raised THEN "reset_raised" ELSE "reset",
                    arg |-> soc, before |-> battery.charge_kwh,
                    first |-> 0, second |-> 0]
        /\ initial_battery' =
              IF initial_battery = NoSnapshot THEN initial_battery
              ELSE state(r.battery)
        /\ UNCHANGED <<mode, pc, environments, actions, result, steps,
                       adapterVars, solved, managerVars>>

Reset(soc) ==
    LET r == reset(battery, soc)
    IN  /\ battery' = r.battery
        /\ last' = [op |-> IF r.raised THEN "reset_raised" ELSE "reset",
                    arg |-> soc, before |-> battery.charge_kwh,
                    first |-> 0, second |-> 0]
        /\ UNCHANGED runVars

\* a charge-discharge cycle: charge(x), then discharge of what x stores
\* when nothing limits the charge, x * EFFICIENCY
RoundTrip(x) ==
    LET charged == charge(battery, x)
        discharged == discharge(charged.battery, TimesEfficiency(x))
    IN  /\ battery' = discharged.battery
        /\ last' = [op |-> "round_trip", arg |-> x,
                    before |-> battery.charge_kwh,
                    first |-> charged.battery.charge_kwh,
                    second |-> discharged.energy_delivered]
        /\ UNCHANGED runVars

NextBattery ==
    \/ \E available_kwh \in AvailableAmounts : Charge(available_kwh)
    \/ \E demand_kwh \in DemandAmounts : Discharge(demand_kwh)
    \/ \E soc \in ResetSocs : Reset(soc)
    \/ \E x \in CycleAmounts : RoundTrip(x)

SpecBattery == InitBattery /\ [][NextBattery]_vars

\* MIN_SOC * capacity_kwh and MAX_SOC * capacity_kwh of the battery
MinLevel == LevelAt(battery.capacity_kwh, MIN_SOC)
MaxLevel == LevelAt(battery.capacity_kwh, MAX_SOC)
SocInvariant == MinLevel <= battery.charge_kwh /\ battery.charge_kwh <= MaxLevel

(***************************************************************************)
(* A run: SimulationRunner.run in rule mode, and                           *)
(* HybridSimulationAdapter._run_milp_simulation in MILP mode.              *)
(*                                                                         *)
(* The code steps through the 24 hours of a day.  The model steps through  *)
(* Hours hours spread evenly over the day (with Hours = 24 they are the    *)
(* hours 0..23), each one hour long.  What the generator yields for an     *)
(* hour's solar and load depends on the seed and the forecast provider and *)
(* is any pair of EnvironmentMenu; the price is the tariff's.              *)
(***************************************************************************)
Hours == 3
HOURS_PER_DAY == 24
HourOf(i) == (i - 1) * (HOURS_PER_DAY \div Hours)

\* the battery of the MILP runs: 4 kWh, whose SOC bounds 0.8 and 3.8 kWh lie
\* on the lattice of the solver model (those of 13.5 kWh do not)
RunCapacity == 4 * KWH

\* (solar, load): a surplus above the charge rate (6.25 kWh), a small surplus
\* (25/24 kWh), balance, a small deficit (0.96 kWh), and a deficit above what
\* the discharge rate delivers (5.76 kWh); surpluses are multiples of
\* LatticeStep / 0.96 and deficits multiples of LatticeStep * 0.96
Menu ==
    << <<KWH + 30 * 5000, KWH>>,
       <<KWH + 5 * 5000, KWH>>,
       <<KWH, KWH>>,
       <<0, 5 * 4608>>,
       <<KWH, KWH + 30 * 4608>> >>
EnvironmentMenu == { Menu[i] : i \in 1 .. Len(Menu) }

\* EnergyDataSimulator.__init__: rng = np.random.default_rng(seed).  With an
\* integer seed the generator's draws, and with them the solar and load of
\* each hour, are a function of the seed: here the seed's digits in base
\* Len(Menu), so that every sequence over the menu has its seed.  With seed
\* None the generator is seeded from the entropy of the operating system.
Seeds == 0 .. (Len(Menu) ^ Hours - 1)
Entropy == {7, 42, 99}
SeededChoice(s) ==
    [i \in 1 .. Hours |-> Menu[((s \div (Len(Menu) ^ (i - 1))) % Len(Menu)) + 1]]
\* a generator that is seeded from the entropy whatever the seed
Draws_entropy(s) == { SeededChoice(e) : e \in Entropy }

Draws(s) ==
    IF s = NoSeed THEN { SeededChoice(e) : e \in Entropy }
    ELSE { SeededChoice(s) }

\* generate_24h_environment yielding the hours in descending order
generate_24h_environment_descending(choice) ==
    [i \in 1 .. Hours |->
        EnvironmentState(HourOf(Hours + 1 - i), choice[i][1], choice[i][2],
                         get_price_for_hour(HourOf(Hours + 1 - i)))]

\* EnergyDataSimulator.generate_24h_environment / _generate_hour
generate_24h_environment(choice) ==
    [i \in 1 .. Hours |->
        EnvironmentState(HourOf(i), choice[i][1], choice[i][2],
                         get_price_for_hour(HourOf(i)))]

\* run(initial_soc): None, a valid soc and one that reset rejects
NoSoc == -1
RunSocs == {NoSoc, 50, 150}

\* HybridSimulationAdapter.__init__: the engine of the mode
EngineOf(m) == IF m = "rule" THEN "DecisionEngine" ELSE "MILPDecisionEngine"

Init ==
    /\ mode \in {"rule", "milp"}
    /\ \E capacity_kwh \in Capacities, initial_soc \in InitialSocs :
          /\ mode = "milp" => capacity_kwh = RunCapacity
          /\ battery = NewBattery(capacity_kwh, initial_soc)
    /\ last = NoCall
    /\ pc = "ready"
    /\ environments = <<>>
    /\ initial_battery = NoSnapshot
    /\ actions = <<>>
    /\ result = SimulationResult
    /\ steps = <<>>
    /\ seed \in Seeds \cup {NoSeed}
    /\ engine = EngineOf(mode)
    /\ previous = <<>>
    /\ solved = NoAnswer
    /\ NoManager

\* one pass of either loop body: the HourlyData appended and the totals
Accumulate(res, env, action, b, grid_import, grid_export, cost, savings, with_savings) ==
    [res EXCEPT
        !.hourly_data = Append(@, HourlyData(env, action, b, grid_import,
                                             grid_export, cost, savings)),
        !.total_solar = @ + env.solar_kwh,
        !.total_consumption = @ + env.load_kwh,
        !.total_grid_usage = @ + grid_import,
        !.total_grid_export = @ + grid_export,
        !.total_cost = @ + cost,
        !.total_savings = IF with_savings THEN @ + savings ELSE @]

StepRecord(snapshot, before, action, a, cost, savings) ==
    [snapshot |-> snapshot, before |-> before, action |-> action,
     grid_import |-> a.grid_import, grid_export |-> a.grid_export,
     cost |-> cost, savings |-> savings,
     call |-> a.call, arg |-> a.arg, first |-> a.first, second |-> a.second,
     battery_state |-> state(a.battery)]

\* SimulationRunner.run up to its loop: the optional reset, the environments
Run(initial_soc) ==
    /\ pc = "ready"
    /\ mode = "rule"
    /\ LET r == IF initial_soc = NoSoc
                THEN [battery |-> battery, raised |-> FALSE]
                ELSE reset(battery, initial_soc)
       IN  IF r.raised
           THEN /\ pc' = "raised"
                /\ UNCHANGED <<battery, environments, initial_battery, result>>
           ELSE /\ battery' = r.battery
                /\ \E choice \in Draws(seed) :
                      environments' = generate_24h_environment(choice)
                /\ initial_battery' = state(r.battery)
                /\ result' = SimulationResult
                /\ pc' = "loop"
    /\ UNCHANGED <<last, mode, actions, steps, adapterVars, solved, managerVars>>

\* _calculate_savings
calculate_savings(envs) == 0

\* one pass of run's loop: _run_step, _to_hourly_data and the totals
RunStep ==
    /\ pc = "loop"
    /\ Len(steps) < Len(environments)
    /\ LET env == environments[Len(steps) + 1]
           snapshot == state(battery)
           action == decide(env, snapshot)
           a == apply_action(action, env, battery)
           cost == hour_cost(a.grid_import, a.grid_export, env.price)
           savings == hour_savings(env, cost)
       IN  /\ battery' = a.battery
           /\ result' = Accumulate(result, env, action, a.battery, a.grid_import,
                                   a.grid_export, cost, savings, FALSE)
           /\ steps' = Append(steps, StepRecord(snapshot, battery.charge_kwh,
                                                action, a, cost, savings))
    /\ UNCHANGED <<last, mode, pc, environments, initial_battery, actions,
                   adapterVars, solved, managerVars>>

\* run after its loop
RunReturn ==
    /\ pc = "loop"
    /\ Len(steps) = Len(environments)
    /\ result' = [result EXCEPT !.total_savings = calculate_savings(environments)]
    /\ pc' = "done"
    /\ UNCHANGED <<battery, last, mode, environments, initial_battery, actions,
                   steps, adapterVars, solved, managerVars>>

\* _run_milp_simulation up to the solve: the environments and the snapshot
RunMilp ==
    /\ pc = "ready"
    /\ mode = "milp"
    /\ \E choice \in Draws(seed) :
          environments' = generate_24h_environment(choice)
    /\ initial_battery' = state(battery)
    /\ pc' = "solve"
    /\ UNCHANGED <<battery, last, mode, actions, result, steps, adapterVars,
                   solved, managerVars>>

\* what optimize_schedule is left with after model.solve, for each way the
\* solver may have ended: with status Optimal an optimal schedule; with
\* another status no values at all (<<>>) or whatever values it left
Answers(solution, problem) ==
    { [status |-> solution.status, problem |-> problem, actions |-> a] :
        a \in IF solution.status = "Optimal" THEN solution.schedules
              ELSE {<<>>} \cup [1 .. Hours -> Action] }

\* MILPDecisionEngine.optimize_schedule.  A status other than Optimal is only
\* logged: the decoding then raises on variables without a value, or decodes
\* whatever values the solver left.  The solver is a program without a clock
\* (time_limit_sec is None) or randomness of its own: which optimal solution
\* it returns is not known, but to the problem it was given last it gives
\* the answer it gave then.
OptimizeSchedule ==
    /\ pc = "solve"
    /\ LET problem == [environments |-> environments,
                       initial_battery |-> initial_battery]
       IN  IF solved.status # "none" /\ solved.problem = problem
           THEN /\ actions' = solved.actions
                /\ solved' = solved
           ELSE \E answer \in Answers(solve(environments, initial_battery),
                                      problem) :
                    /\ actions' = answer.actions
                    /\ solved' = answer
    /\ pc' = IF actions' = <<>> THEN "raised" ELSE "replay"
    /\ result' = SimulationResult
    /\ UNCHANGED <<battery, last, mode, environments, initial_battery, steps,
                   adapterVars, managerVars>>

\* one pass of _run_milp_simulation's loop
ReplayStep ==
    /\ pc = "replay"
    /\ Len(steps) < Min2(Len(environments), Len(actions))
    /\ LET env == environments[Len(steps) + 1]
           action == actions[Len(steps) + 1]
           a == hybrid_apply_action(action, env, battery)
           cost == hour_cost(a.grid_import, a.grid_export, env.price)
           savings == hour_savings(env, cost)
       IN  /\ battery' = a.battery
           /\ result' = Accumulate(result, env, action, a.battery, a.grid_import,
                                   a.grid_export, cost, savings, TRUE)
           /\ steps' = Append(steps, StepRecord(NoSnapshot, battery.charge_kwh,
                                                action, a, cost, savings))
    /\ UNCHANGED <<last, mode, pc, environments, initial_battery, actions,
                   adapterVars, solved, managerVars>>

\* _run_milp_simulation after its loop
ReplayReturn ==
    /\ pc = "replay"
    /\ Len(steps) = Min2(Len(environments), Len(actions))
    /\ pc' = "done"
    /\ UNCHANGED <<battery, last, mode, environments, initial_battery, actions,
                   result, steps, adapterVars, solved, managerVars>>

Next ==
    \/ \E initial_soc \in RunSocs : Run(initial_soc)
    \/ RunStep
    \/ RunReturn
    \/ RunMilp
    \/ OptimizeSchedule
    \/ ReplayStep
    \/ ReplayReturn

Spec == Init /\ [][Next]_vars

(***************************************************************************)
(* A MILP run whose problem has no solution: a battery of 28 kWh at 0      *)
(* percent cannot reach MIN_SOC * capacity = 5.6 kWh within the first      *)
(* hour, in which it stores at most 5 * 0.96 = 4.8 kWh, so the bounds of   *)
(* battery_charge[0] cannot be met and the solver's status is Infeasible.  *)
(***************************************************************************)
OversizedCapacity == 28 * KWH

InitOversized ==
    /\ mode = "milp"
    /\ battery = NewBattery(OversizedCapacity, 0)
    /\ last = NoCall
    /\ pc = "ready"
    /\ environments = <<>>
    /\ initial_battery = NoSnapshot
    /\ actions = <<>>
    /\ result = SimulationResult
    /\ steps = <<>>
    /\ seed \in Entropy
    /\ engine = EngineOf(mode)
    /\ previous = <<>>
    /\ solved = NoAnswer
    /\ NoManager

NextOversized ==
    \/ RunMilp
    \/ OptimizeSchedule
    \/ ReplayStep
    \/ ReplayReturn

SpecOversized == InitOversized /\ [][NextOversized]_vars

(***************************************************************************)
(* Two adapters, one after the other: the caller constructs an adapter     *)
(* from a config, a seed and a mode and calls generate_24h_data, then      *)
(* constructs another one from the same config and seed and calls it too   *)
(* (tests/test_integration.py test_reproducible_simulation;                *)
(* SimulationService.compare_optimizations, rule mode first).               *)
(***************************************************************************)
\* the adapters' battery is constructed at 50 percent
ADAPTER_INITIAL_SOC == 50

InitTwice ==
    /\ mode \in {"rule", "milp"}
    /\ battery = NewBattery(RunCapacity, ADAPTER_INITIAL_SOC)
    /\ last = NoCall
    /\ pc = "ready"
    /\ environments = <<>>
    /\ initial_battery = NoSnapshot
    /\ actions = <<>>
    /\ result = SimulationResult
    /\ steps = <<>>
    /\ seed \in Seeds \cup {NoSeed}
    /\ engine = EngineOf(mode)
    /\ previous = <<>>
    /\ solved = NoAnswer
    /\ NoManager

\* what the caller keeps of a finished generate_24h_data
Returned ==
    [mode |-> mode, environments |-> environments,
     initial_battery |-> initial_battery, actions |-> actions,
     result |-> result, steps |-> steps]

\* HybridSimulationAdapter.__init__ of the second adapter, with the seed of
\* the first: a new simulator, a new battery, the engine of mode m
Construct(m) ==
    /\ pc = "done"
    /\ previous = <<>>
    /\ previous' = <<Returned>>
    /\ mode' = m
    /\ engine' = EngineOf(m)
    /\ battery' = NewBattery(battery.capacity_kwh, ADAPTER_INITIAL_SOC)
    /\ pc' = "ready"
    /\ environments' = <<>>
    /\ initial_battery' = NoSnapshot
    /\ actions' = <<>>
    /\ result' = SimulationResult
    /\ steps' = <<>>
    /\ UNCHANGED <<last, seed, solved, managerVars>>

\* the hours in which the two results' actions differ
DifferentDecisions(rule_result, milp_result) ==
    { t \in 1 .. Min2(Len(rule_result.hourly_data), Len(milp_result.hourly_data)) :
        rule_result.hourly_data[t].action # milp_result.hourly_data[t].action }

\* SimulationService.compare_optimizations after its two generate_24h_data:
\* the dict it returns.  improvement_percent is 100 times the fraction
\* given here by its numerator and denominator.
CompareOptimizations ==
    /\ pc = "done"
    /\ Len(previous) = 1
    /\ previous[1].mode = "rule"
    /\ mode = "milp"
    /\ LET rule_result == previous[1].result
           milp_result == result
           cost_savings == rule_result.total_cost - milp_result.total_cost
       IN  last' = [op |-> "compare_optimizations",
                    rule_result |-> rule_result,
                    milp_result |-> milp_result,
                    cost_savings |-> cost_savings,
                    improvement_percent |->
                        IF rule_result.total_cost # 0
                        THEN <<cost_savings, rule_result.total_cost>>
                        ELSE <<0, 1>>,
                    different_decisions_count |->
                        Cardinality(DifferentDecisions(rule_result, milp_result))]
    /\ pc' = "compared"
    /\ UNCHANGED <<battery, mode, environments, initial_battery, actions, result,
                   steps, adapterVars, solved, managerVars>>

NextTwice ==
    \/ \E initial_soc \in RunSocs : Run(initial_soc)
    \/ RunStep
    \/ RunReturn
    \/ RunMilp
    \/ OptimizeSchedule
    \/ ReplayStep
    \/ ReplayReturn
    \/ \E m \in {"rule", "milp"} : Construct(m)
    \/ CompareOptimizations

SpecTwice == InitTwice /\ [][NextTwice]_vars

(***************************************************************************)
(* HybridSimulationAdapter.compare_modes on an adapter constructed in      *)
(* either mode.  __init__ creates _engine for the mode it is given, and    *)
(* _runner only in rule mode; compare_modes assigns self.mode and calls    *)
(* generate_24h_data, which reads the attributes of the mode it finds.     *)
(***************************************************************************)
InitModes ==
    /\ mode \in {"rule", "milp"}
    /\ \E capacity_kwh \in Capacities :
          battery = NewBattery(capacity_kwh, ADAPTER_INITIAL_SOC)
    /\ last = NoCall
    /\ pc = "ready"
    /\ environments = <<>>
    /\ initial_battery = NoSnapshot
    /\ actions = <<>>
    /\ result = SimulationResult
    /\ steps = <<>>
    /\ seed \in Seeds \cup {NoSeed}
    /\ engine = EngineOf(mode)
    /\ previous = <<>>
    /\ solved = NoAnswer
    /\ NoManager

AttributeError(object, attribute) ==
    [op |-> "raised", exception |-> "AttributeError", object |-> object,
     attribute |-> attribute]

\* compare_modes up to the loop of the rule-based run: self.mode = 'rule',
\* the reset, and generate_24h_data's self._runner.run()
CompareModesRule ==
    /\ pc = "ready"
    /\ mode' = "rule"
    /\ battery' = reset(battery, ADAPTER_INITIAL_SOC).battery
    /\ IF engine = "DecisionEngine"
       THEN /\ \E choice \in Draws(seed) :
                  environments' = generate_24h_environment(choice)
            /\ initial_battery' = state(battery')
            /\ pc' = "loop"
            /\ last' = last
       ELSE /\ pc' = "raised"
            /\ last' = AttributeError("HybridSimulationAdapter", "_runner")
            /\ UNCHANGED <<environments, initial_battery>>
    /\ UNCHANGED <<actions, result, steps, adapterVars, solved, managerVars>>

\* compare_modes from the return of the rule-based run up to the solve:
\* self.mode = 'milp', the reset, and _run_milp_simulation, whose
\* environments are the next draws of the same generator
CompareModesMilp ==
    /\ pc = "done"
    /\ previous = <<>>
    /\ previous' = <<Returned>>
    /\ mode' = "milp"
    /\ battery' = reset(battery, ADAPTER_INITIAL_SOC).battery
    /\ \E choice \in [1 .. Hours -> EnvironmentMenu] :
          environments' = generate_24h_environment(choice)
    /\ initial_battery' = state(battery')
    /\ IF engine = "MILPDecisionEngine"
       THEN /\ pc' = "solve"
            /\ last' = last
       ELSE /\ pc' = "raised"
            /\ last' = AttributeError("DecisionEngine", "optimize_schedule")
    /\ actions' = <<>>
    /\ steps' = <<>>
    /\ UNCHANGED <<result, seed, engine, solved, managerVars>>

\* the runs compare_modes starts; the rest of it is never reached
NextModes ==
    \/ CompareModesRule
    \/ RunStep
    \/ RunReturn
    \/ CompareModesMilp

SpecModes == InitModes /\ [][NextModes]_vars

(***************************************************************************)
(* The generator of one hour's environment and the forecast provider.      *)
(* What the provider does when asked is an input: it is absent (use_ai is  *)
(* False or ai_manager is None), its predict raises, or it returns         *)
(* something: a number, a NaN, or a value that is no number (None).  What  *)
(* the synthetic generator draws from its rng is an input as well.         *)
(***************************************************************************)
INVERTER_MAX_OUTPUT == 8
SOLAR_PREDICTION_MAX == 15
CONSUMPTION_PREDICTION_MAX == 10

Outcome(kind, value) == [kind |-> kind, value |-> value]
\* predictions on and around 0, 10 and 15 kWh
Predictions ==
    {-KWH, -1, 0, KWH, 10 * KWH, 10 * KWH + 1, 15 * KWH, 15 * KWH + 1, 20 * KWH}
ProviderOutcomes ==
    { Outcome(kind, 0) : kind \in {"absent", "raises", "nan", "none"} }
        \cup { Outcome("number", v) : v \in Predictions }

\* the hours on and around the first and last hour of daylight
GeneratorHours == {0, 5, 6, 12, 18, 19, 23}
\* base * variation * weather_mult of the synthetic solar, below and above
\* the inverter's limit; base * variation of the synthetic consumption
SolarDraws == {2 * KWH, INVERTER_MAX_OUTPUT * KWH, 9 * KWH}
ConsumptionDraws == {KWH \div 2, 4 * KWH}

\* _generate_solar_simulation
generate_solar_simulation(hour, draw) ==
    IF hour < 6 \/ hour > 18 THEN 0
    ELSE Min2(draw, INVERTER_MAX_OUTPUT * KWH)

\* _generate_consumption_simulation
generate_consumption_simulation(hour, draw) == draw

\* the try block of both generators without the check of the range
prediction_unchecked(outcome, maximum, simulation) ==
    IF outcome.kind = "number" THEN outcome.value ELSE simulation

\* the try block of both generators: the prediction if the provider is
\* there, predict returns and 0 <= prediction <= maximum evaluates to True;
\* the comparison raises inside the try on a value that is no number and is
\* False on a NaN; every Exception ends in the simulation
prediction_or_simulation(outcome, maximum, simulation) ==
    IF outcome.kind = "number"
       /\ 0 <= outcome.value /\ outcome.value <= maximum * KWH
    THEN outcome.value
    ELSE simulation

\* _generate_solar_for_hour
generate_solar_for_hour(hour, outcome, draw) ==
    prediction_or_simulation(outcome, SOLAR_PREDICTION_MAX,
                             generate_solar_simulation(hour, draw))

\* _generate_consumption_for_hour
generate_consumption_for_hour(hour, outcome, draw) ==
    prediction_or_simulation(outcome, CONSUMPTION_PREDICTION_MAX,
                             generate_consumption_simulation(hour, draw))

InitGenerator ==
    /\ battery = NewBattery(RunCapacity, ADAPTER_INITIAL_SOC)
    /\ last = NoCall
    /\ mode = "none"
    /\ pc = "call"
    /\ environments = <<>>
    /\ initial_battery = NoSnapshot
    /\ actions = <<>>
    /\ result = SimulationResult
    /\ steps = <<>>
    /\ NoAdapter
    /\ NoManager

\* _generate_hour
GenerateHour(hour, solar, load, solar_draw, load_draw) ==
    /\ pc = "call"
    /\ pc' = "called"
    /\ last' = [op |-> "_generate_hour", hour |-> hour,
                solar |-> solar, load |-> load,
                solar_simulation |-> generate_solar_simulation(hour, solar_draw),
                load_simulation |-> generate_consumption_simulation(hour, load_draw),
                env |-> EnvironmentState(
                           hour,
                           generate_solar_for_hour(hour, solar, solar_draw),
                           generate_consumption_for_hour(hour, load, load_draw),
                           get_price_for_hour(hour))]
    /\ UNCHANGED <<battery, mode, environments, initial_battery, actions, result,
                   steps, adapterVars, solved, managerVars>>

NextGenerator ==
    \E hour \in GeneratorHours, solar \in ProviderOutcomes,
       load \in ProviderOutcomes, solar_draw \in SolarDraws,
       load_draw \in ConsumptionDraws :
        GenerateHour(hour, solar, load, solar_draw, load_draw)

SpecGenerator == InitGenerator /\ [][NextGenerator]_vars

(***************************************************************************)
(* generate_24h_environment called more than once, on one simulator and on *)
(* simulators constructed anew from the same config and seed.  The         *)
(* simulator's rng is a numpy Generator: every draw advances it, and       *)
(* nothing in the simulator sets it back.  A stream is named by a number   *)
(* whose digits in base Len(Menu) are its draws: the first Hours digits    *)
(* are what the first call draws, the next Hours digits what the second    *)
(* call draws.  The provider is absent, or it answers every hour with a    *)
(* prediction within the range, the same for the same hour.                *)
(***************************************************************************)
Calls == 3
StreamSeeds == { a + (Len(Menu) ^ Hours) * b : a, b \in {0, 42, 99} }

\* what the call number k draws from the stream
StreamDraws(stream, k) == SeededChoice(stream \div (Len(Menu) ^ (Hours * (k - 1))))

\* the provider's predictions: 2 kWh of solar and 1 kWh of load in every hour
Predicted == [i \in 1 .. Hours |-> <<2 * KWH, KWH>>]

\* EnergyDataSimulator.__init__: np.random.default_rng(seed)
\* (all the simulators it may build: with seed None one for each stream)
NewSimulator(use_ai, made) ==
    { [op |-> "__init__", rng |-> stream, calls |-> 0, use_ai |-> use_ai,
       simulators |-> made + 1] :
        stream \in IF seed = NoSeed THEN StreamSeeds ELSE {seed} }

InitRepeat ==
    /\ battery = NewBattery(RunCapacity, ADAPTER_INITIAL_SOC)
    /\ mode = "none"
    /\ pc = "ready"
    /\ environments = <<>>
    /\ initial_battery = NoSnapshot
    /\ actions = <<>>
    /\ result = SimulationResult
    /\ steps = <<>>
    /\ seed \in StreamSeeds \cup {NoSeed}
    /\ engine = "none"
    /\ previous = <<>>
    /\ solved = NoAnswer
    /\ NoManager
    /\ \E use_ai \in BOOLEAN : last \in NewSimulator(use_ai, 0)

\* generate_24h_environment on the simulator constructed last
GenerateEnvironments ==
    /\ Len(previous) < Calls
    /\ LET choice == IF last.use_ai THEN Predicted
                     ELSE StreamDraws(last.rng, last.calls + 1)
       IN  environments' = generate_24h_environment(choice)
    /\ previous' = Append(previous, [simulator |-> last.simulators,
                                     call |-> last.calls + 1,
                                     environments |-> environments'])
    /\ last' = [last EXCEPT !.op = "generate_24h_environment",
                            !.calls = last.calls + 1]
    /\ UNCHANGED <<battery, mode, pc, initial_battery, actions, result, steps,
                   seed, engine, solved, managerVars>>

\* EnergyDataSimulator(config, seed) once more, with the same config and seed
ConstructSimulator ==
    /\ last.calls > 0
    /\ Len(previous) < Calls
    /\ last' \in NewSimulator(last.use_ai, last.simulators)
    /\ UNCHANGED <<battery, mode, pc, environments, initial_battery, actions,
                   result, steps, adapterVars, solved, managerVars>>

NextRepeat ==
    \/ GenerateEnvironments
    \/ ConstructSimulator

SpecRepeat == InitRepeat /\ [][NextRepeat]_vars

(***************************************************************************)
(* A BatteryState taken from battery.state and kept by the caller while    *)
(* the battery is charged, discharged and reset, and while the snapshot is *)
(* handed to the two engines.  BatteryState is a frozen dataclass of three *)
(* floats, built anew by every evaluation of battery.state.                *)
(***************************************************************************)
InitSnapshot ==
    /\ \E initial_soc \in InitialSocs :
          battery = NewBattery(RunCapacity, initial_soc)
    /\ last = NoCall
    /\ mode = "none"
    /\ pc = "ready"
    /\ \E s \in Entropy :
          environments = generate_24h_environment(SeededChoice(s))
    /\ initial_battery = NoSnapshot
    /\ actions = <<>>
    /\ result = SimulationResult
    /\ steps = <<>>
    /\ NoAdapter
    /\ NoManager

\* snapshot = battery.state
TakeState ==
    /\ pc = "ready"
    /\ initial_battery' = state(battery)
    /\ pc' = "solve"
    /\ UNCHANGED <<battery, last, mode, environments, actions, result, steps,
                   adapterVars, solved, managerVars>>

\* DecisionEngine.decide(env, snapshot)
DecideSnapshot(env) ==
    /\ pc # "ready"
    /\ last' = [op |-> "decide", arg |-> env.hour,
                before |-> battery.charge_kwh,
                first |-> decide(env, initial_battery), second |-> 0]
    /\ UNCHANGED <<battery, runVars>>

\* the caller's two calls on the battery after it took the snapshot
Later ==
    /\ pc # "ready"
    /\ last.op = "none" \/ last.before = initial_battery.charge_kwh

NextSnapshot ==
    \/ TakeState
    \/ Later /\ \E available_kwh \in AvailableAmounts : Charge(available_kwh)
    \/ Later /\ \E demand_kwh \in DemandAmounts : Discharge(demand_kwh)
    \/ Later /\ \E soc \in ResetSocs : Reset(soc)
    \/ \E i \in 1 .. Hours : DecideSnapshot(environments[i])
    \/ OptimizeSchedule

SpecSnapshot == InitSnapshot /\ [][NextSnapshot]_vars

(***************************************************************************)
(* The arguments of Battery(capacity_kwh, initial_soc), reset(soc) and     *)
(* run(initial_soc): the caller constructs batteries and resets them with  *)
(* any arguments, then calls run on the SimulationRunner of the battery it *)
(* holds.                                                                  *)
(***************************************************************************)
\* capacity_kwh: the two capacities, zero and a negative one
ConstructorCapacities == Capacities \cup {0, -KWH}

InitValidation ==
    /\ \E capacity_kwh \in Capacities :
          battery = NewBattery(capacity_kwh, ADAPTER_INITIAL_SOC)
    /\ last = NoCall
    /\ mode = "rule"
    /\ pc = "ready"
    /\ environments = <<>>
    /\ initial_battery = NoSnapshot
    /\ actions = <<>>
    /\ result = SimulationResult
    /\ steps = <<>>
    /\ seed \in Entropy
    /\ engine = EngineOf(mode)
    /\ previous = <<>>
    /\ solved = NoAnswer
    /\ NoManager

\* battery = Battery(capacity_kwh, initial_soc): the caller holds the new
\* battery if __init__ returns, and the one it held if __init__ raises
BatteryInit(capacity_kwh, initial_soc) ==
    /\ pc = "ready"
    /\ battery' = IF Accepted(capacity_kwh, initial_soc)
                  THEN NewBattery(capacity_kwh, initial_soc)
                  ELSE battery
    /\ last' = [op |-> IF Accepted(capacity_kwh, initial_soc)
                       THEN "init" ELSE "init_raised",
                arg |-> initial_soc, before |-> battery.charge_kwh,
                first |-> capacity_kwh, second |-> 0]
    /\ UNCHANGED runVars

NextValidation ==
    \/ \E capacity_kwh \in ConstructorCapacities, initial_soc \in ResetSocs :
          BatteryInit(capacity_kwh, initial_soc)
    \/ pc = "ready" /\ \E soc \in ResetSocs : Reset(soc)
    \/ \E initial_soc \in RunSocs : Run(initial_soc)
    \/ RunStep
    \/ RunReturn

SpecValidation == InitValidation /\ [][NextValidation]_vars

(***************************************************************************)
(* The MILP of _build_milp on environments with any positive prices: the   *)
(* tariff's, the export price itself, and a price below the export price   *)
(* (0.18 per kWh).  A point gives every hour's variables.  The points      *)
(* looked at change the stored energy in one hour and leave it alone in    *)
(* the others, with the least grid flows that balance each hour; such a    *)
(* point is then moved along grid_import[t] and grid_export[t] together.   *)
(***************************************************************************)
PosedPrices == {18, GRID_EXPORT_PRICE, PRICING_NORMAL}
\* the initial levels within the SOC bounds, in percent
PosedSocs == {20, 50, 95}
\* by how much both grid flows of an hour are raised: 1 kWh and 50 kWh
RaiseAmounts == {KWH, 50 * KWH}

\* _build_milp: every constraint and bound of the model, at a point
FeasiblePoint(envs, entry, point) ==
    \A t \in 1 .. Len(envs) :
        /\ VariableBounds(point[t])
        /\ LevelBounds(point[t].battery_charge, entry.capacity_kwh)
        /\ EnergyBalance(envs[t], point[t])
        /\ BatteryDynamics(IF t = 1 THEN entry.charge_kwh
                           ELSE point[t - 1].battery_charge, point[t])
        /\ Complementarity(point[t])

\* _build_milp: the objective at a point
RECURSIVE Objective(_, _, _)
Objective(envs, point, n) ==
    IF n = 0 THEN 0
    ELSE ObjectiveTerm(envs[n], point[n]) + Objective(envs, point, n - 1)

InitPosed ==
    /\ \E initial_soc \in PosedSocs :
          /\ battery = NewBattery(RunCapacity, initial_soc)
          /\ initial_battery = state(battery)
    /\ last = NoCall
    /\ mode = "milp"
    /\ pc = "solve"
    /\ \E s \in Entropy, price \in [1 .. Hours -> PosedPrices] :
          environments =
              [t \in 1 .. Hours |->
                  EnvironmentState(HourOf(t), SeededChoice(s)[t][1],
                                   SeededChoice(s)[t][2], price[t])]
    /\ actions = <<>>
    /\ result = SimulationResult
    /\ steps = <<>>
    /\ NoAdapter
    /\ NoManager

\* the point that changes the stored energy by k lattice steps in the hour
\* hour and by nothing in the other hours
PointAt(hour, k) ==
    LET after == initial_battery.charge_kwh + k * LatticeStep
    IN  [t \in 1 .. Hours |->
            HourVariables(environments[t],
                          IF t <= hour THEN initial_battery.charge_kwh ELSE after,
                          IF t = hour THEN k ELSE 0)]

\* a point of the model, and the point with grid_import and grid_export of
\* one hour raised by the same amount
RaiseGridFlows(hour, k, amount) ==
    /\ pc = "solve"
    /\ LET point == PointAt(hour, k)
           raised == [point EXCEPT
                         ![hour].grid_import = point[hour].grid_import + amount,
                         ![hour].grid_export = point[hour].grid_export + amount]
       IN  /\ FeasiblePoint(environments, initial_battery, point)
           /\ last' = [op |-> "raise", arg |-> amount, before |-> hour,
                       first |-> Objective(environments, point, Hours),
                       second |-> Objective(environments, raised, Hours),
                       feasible |-> FeasiblePoint(environments, initial_battery,
                                                  raised)]
    /\ pc' = "raised"
    /\ UNCHANGED <<battery, mode, environments, initial_battery, actions, result,
                   steps, adapterVars, solved, managerVars>>

NextPosed ==
    \E hour \in 1 .. Hours, k \in (-MaxSteps) .. MaxSteps, amount \in RaiseAmounts :
        RaiseGridFlows(hour, k, amount)

SpecPosed == InitPosed /\ [][NextPosed]_vars

(***************************************************************************)
(* ModelManager() called by several workers at once.  Each worker calls   *)
(* it once, the way EnergyDataSimulator.__init__ does; the steps of the   *)
(* call are the reads and writes of __new__ and __init__, and the workers *)
(* interleave between any two of them (the code takes no lock).  An       *)
(* instance is its index in objects; 0 is None.  A predictor is named by  *)
(* the worker that constructed it; 0 is an attribute that is not set.     *)
(***************************************************************************)
Workers == 2
WorkerIds == 1 .. Workers

NewWorker == [pc |-> "idle", self |-> 0, ai_manager |-> 0, loads |-> 0,
              solar |-> 0, consumption |-> 0]
NewObject == [solar |-> 0, consumption |-> 0, _initialized |-> FALSE]

InitManager ==
    /\ battery = NewBattery(RunCapacity, ADAPTER_INITIAL_SOC)
    /\ last = NoCall
    /\ mode = "none"
    /\ pc = "none"
    /\ environments = <<>>
    /\ initial_battery = NoSnapshot
    /\ actions = <<>>
    /\ result = SimulationResult
    /\ steps = <<>>
    /\ NoAdapter
    /\ cls = [_instance |-> 0, _initialized |-> FALSE]
    /\ objects = <<>>
    /\ workers = [w \in WorkerIds |-> NewWorker]
    /\ modules = NotImported
    /\ stack = <<>>

managerFrame ==
    <<battery, last, mode, pc, environments, initial_battery, actions, result,
      steps, adapterVars, solved, modules, stack>>

At(w, where) == workers[w].pc = where
Goto(w, where) == [workers EXCEPT ![w].pc = where]

\* EnergyDataSimulator.__init__: self.ai_manager = ModelManager()
CallModelManager(w) ==
    /\ At(w, "idle")
    /\ workers' = Goto(w, "new")
    /\ UNCHANGED <<cls, objects, managerFrame>>

\* __new__: if cls._instance is None
NewCheck(w) ==
    /\ At(w, "new")
    /\ workers' = Goto(w, IF cls._instance = 0 THEN "create" ELSE "return")
    /\ UNCHANGED <<cls, objects, managerFrame>>

\* __new__: cls._instance = super().__new__(cls)
NewCreate(w) ==
    /\ At(w, "create")
    /\ objects' = Append(objects, NewObject)
    /\ cls' = [cls EXCEPT !._instance = Len(objects) + 1]
    /\ workers' = Goto(w, "return")
    /\ UNCHANGED managerFrame

\* __new__: return cls._instance
NewReturn(w) ==
    /\ At(w, "return")
    /\ workers' = [workers EXCEPT ![w].pc = "init", ![w].self = cls._instance]
    /\ UNCHANGED <<cls, objects, managerFrame>>

\* self._initialized: the instance's attribute if it is set, the class's
\* otherwise
Initialized(self) == objects[self]._initialized \/ cls._initialized

\* __init__: if self._initialized: return
InitCheck(w) ==
    /\ At(w, "init")
    /\ workers' =
          IF Initialized(workers[w].self)
          THEN [workers EXCEPT ![w].pc = "constructed",
                               ![w].ai_manager = workers[w].self]
          ELSE Goto(w, "solar")
    /\ UNCHANGED <<cls, objects, managerFrame>>

\* __init__: self.solar = SolarPredictor()
LoadSolar(w) ==
    /\ At(w, "solar")
    /\ objects' = [objects EXCEPT ![workers[w].self].solar = w]
    /\ workers' = [workers EXCEPT ![w].pc = "consumption",
                                  ![w].loads = workers[w].loads + 1]
    /\ UNCHANGED <<cls, managerFrame>>

\* __init__: self.consumption = ConsumptionPredictor()
LoadConsumption(w) ==
    /\ At(w, "consumption")
    /\ objects' = [objects EXCEPT ![workers[w].self].consumption = w]
    /\ workers' = [workers EXCEPT ![w].pc = "mark",
                                  ![w].loads = workers[w].loads + 1]
    /\ UNCHANGED <<cls, managerFrame>>

\* __init__: self._initialized = True
MarkInitialized(w) ==
    /\ At(w, "mark")
    /\ objects' = [objects EXCEPT ![workers[w].self]._initialized = TRUE]
    /\ workers' = [workers EXCEPT ![w].pc = "constructed",
                                  ![w].ai_manager = workers[w].self]
    /\ UNCHANGED <<cls, managerFrame>>

\* EnergyDataSimulator.__init__: self.ai_manager.solar.is_using_fallback()
\* and self.ai_manager.consumption.is_using_fallback()
UsePredictors(w) ==
    /\ At(w, "constructed")
    /\ workers' = [workers EXCEPT
                      ![w].pc = "used",
                      ![w].solar = objects[workers[w].ai_manager].solar,
                      ![w].consumption = objects[workers[w].ai_manager].consumption]
    /\ UNCHANGED <<cls, objects, managerFrame>>

NextManager ==
    \E w \in WorkerIds :
        \/ CallModelManager(w)
        \/ NewCheck(w)
        \/ NewCreate(w)
        \/ NewReturn(w)
        \/ InitCheck(w)
        \/ LoadSolar(w)
        \/ LoadConsumption(w)
        \/ MarkInitialized(w)
        \/ UsePredictors(w)

SpecManager == InitManager /\ [][NextManager]_vars

(***************************************************************************)
(* The forecast lookup and the imports behind it.  simulator.py imports    *)
(* ModelManager inside a try (26-31) and sets AI_AVAILABLE by whether that  *)
(* import succeeded; model_manager.py imports the two predictors, and each *)
(* predictor imports EnergyDataSimulator from simulator.py (line 23).  The *)
(* entry point imports the modules in any order, constructs the            *)
(* ModelManager, asks a predictor, or constructs a simulator and asks it   *)
(* for one hour's solar or consumption.  The frames of the lookup are the  *)
(* calls between the simulator and the predictors; a call made with        *)
(* RecursionLimit frames on the stack raises RecursionError.               *)
(***************************************************************************)
RecursionLimit == 12

\* the modules a module's body imports a name from, in the order of its
\* statements; every one of them stands before the module's class statement
ImportsOf(m) ==
    CASE m = "simulator" -> <<"model_manager">>
      [] m = "model_manager" -> <<"solar_predictor", "consumption_predictor">>
      [] OTHER -> <<"simulator">>

\* an import that binds the module and reads the name when it is used
from_import_deferred(entry) ==
    IF entry = "absent" THEN "load" ELSE "bound"

\* from module import Name, by the module's entry in sys.modules: a module
\* whose body is still running has not defined its class yet
from_import(entry) ==
    CASE entry = "absent" -> "load"
      [] entry = "partial" -> "ImportError"
      [] OTHER -> "bound"

lookupFrame ==
    <<battery, mode, pc, environments, initial_battery, actions, result, steps,
      adapterVars, solved, workers>>

Idle == modules.importing = <<>> /\ stack = <<>>
TopImport == modules.importing[Len(modules.importing)]
ImportFrame(m) == [module |-> m, at |-> 1, raising |-> FALSE]
ReplaceTop(seq, frame) == [seq EXCEPT ![Len(seq)] = frame]
Pop(seq) == SubSeq(seq, 1, Len(seq) - 1)

InitLookup ==
    /\ battery = NewBattery(RunCapacity, ADAPTER_INITIAL_SOC)
    /\ last = NoCall
    /\ mode = "none"
    /\ pc = "none"
    /\ environments = <<>>
    /\ initial_battery = NoSnapshot
    /\ actions = <<>>
    /\ result = SimulationResult
    /\ steps = <<>>
    /\ NoAdapter
    /\ NoManager

\* an import statement of the entry point
EntryImport(m) ==
    /\ Idle
    /\ modules.sys_modules[m] = "absent"
    /\ modules' = [modules EXCEPT !.sys_modules[m] = "partial",
                                  !.importing = <<ImportFrame(m)>>]
    /\ last' = [op |-> "import", module |-> m]
    /\ UNCHANGED <<cls, objects, stack, lookupFrame>>

\* the next from-import of the module whose body is running
ImportStatement ==
    /\ modules.importing # <<>>
    /\ ~TopImport.raising
    /\ TopImport.at <= Len(ImportsOf(TopImport.module))
    /\ LET target == ImportsOf(TopImport.module)[TopImport.at]
           found == from_import(modules.sys_modules[target])
       IN  modules' =
             CASE found = "load" ->
                    [modules EXCEPT
                       !.sys_modules[target] = "partial",
                       !.importing = Append(@, ImportFrame(target))]
               [] found = "ImportError" ->
                    [modules EXCEPT
                       !.importing = ReplaceTop(@, [TopImport EXCEPT
                                                     !.raising = TRUE])]
               [] OTHER ->
                    [modules EXCEPT
                       !.importing = ReplaceTop(@, [TopImport EXCEPT
                                                     !.at = @ + 1]),
                       !.AI_AVAILABLE =
                           IF TopImport.module = "simulator" THEN TRUE ELSE @]
    /\ UNCHANGED <<last, cls, objects, stack, lookupFrame>>

\* an ImportError in a module's body: simulator.py catches it and sets
\* AI_AVAILABLE = False (29-31); any other module is dropped from sys.modules
\* and the error is raised at the import statement that loaded it
ImportRaise ==
    /\ modules.importing # <<>>
    /\ TopImport.raising
    /\ IF TopImport.module = "simulator"
       THEN /\ modules' = [modules EXCEPT
                             !.importing = ReplaceTop(@, [TopImport EXCEPT
                                              !.raising = FALSE, !.at = @ + 1]),
                             !.AI_AVAILABLE = FALSE]
            /\ last' = last
       ELSE /\ modules' = [modules EXCEPT
                             !.sys_modules[TopImport.module] = "absent",
                             !.importing =
                                 IF Len(@) = 1 THEN <<>>
                                 ELSE ReplaceTop(Pop(@), [@[Len(@) - 1] EXCEPT
                                                            !.raising = TRUE])]
            /\ last' = IF Len(modules.importing) = 1
                       THEN [op |-> "ImportError", module |-> TopImport.module]
                       ELSE last
    /\ UNCHANGED <<cls, objects, stack, lookupFrame>>

\* the end of a module's body: its classes are defined
ImportReturn ==
    /\ modules.importing # <<>>
    /\ ~TopImport.raising
    /\ TopImport.at > Len(ImportsOf(TopImport.module))
    /\ modules' = [modules EXCEPT !.sys_modules[TopImport.module] = "complete",
                                  !.importing = Pop(@)]
    /\ UNCHANGED <<last, cls, objects, stack, lookupFrame>>

LoadOutcomes == {"loaded", "fallback"}
Predictors == {"solar", "consumption"}

\* ModelManager(): the instance there is, or a new one whose predictors
\* have loaded their model or are using_fallback
ModelManager(solar, consumption) ==
    IF cls._instance # 0 THEN objects
    ELSE <<[solar |-> solar, consumption |-> consumption,
            _initialized |-> TRUE]>>

\* EnergyDataSimulator.__init__: self.use_ai
simulator_use_ai(use_ai, manager) ==
    /\ use_ai
    /\ modules.AI_AVAILABLE
    /\ ~(manager[1].solar = "fallback" /\ manager[1].consumption = "fallback")

GeneratorOf(which) ==
    IF which = "solar" THEN "_generate_solar_for_hour"
    ELSE "_generate_consumption_for_hour"
Generators == { GeneratorOf(which) : which \in Predictors }

Frame(fn, which, use_ai) ==
    [fn |-> fn, which |-> which, use_ai |-> use_ai, at |-> "call",
     result |-> "none"]
Top == stack[Len(stack)]
Done(frame, value) == [frame EXCEPT !.at = "done", !.result = value]

\* the caller after its callee returned value or raised RecursionError
Resume(caller, value) ==
    CASE caller.fn \in Generators ->
           \* the try block: the prediction if it is in the range, and the
           \* simulation after an Exception or a value out of the range
           Done(caller, IF value = "prediction" THEN value ELSE "simulation")
      [] caller.fn = "_generate_hour" /\ caller.which = "solar" ->
           [caller EXCEPT !.which = "consumption", !.at = "call"]
      [] caller.fn = "_generate_hour" -> Done(caller, "env")
      [] OTHER ->
           \* predict and _fallback_predict hand on what they got: the
           \* fallback's simulation is a number of the range
           Done(caller, IF value = "RecursionError" THEN value
                        ELSE "prediction")

\* the top frame calls frame
Call(frame) ==
    IF Len(stack) >= RecursionLimit
    THEN ReplaceTop(stack, Resume(Top, "RecursionError"))
    ELSE Append(ReplaceTop(stack, [Top EXCEPT !.at = "wait"]), frame)

\* the entry point constructs the ModelManager
EntryManager(solar, consumption) ==
    /\ Idle
    /\ modules.sys_modules["model_manager"] = "complete"
    /\ cls._instance = 0
    /\ objects' = ModelManager(solar, consumption)
    /\ cls' = [_instance |-> 1, _initialized |-> TRUE]
    /\ last' = [op |-> "ModelManager", solar |-> solar,
                consumption |-> consumption]
    /\ UNCHANGED <<modules, stack, lookupFrame>>

\* the entry point constructs EnergyDataSimulator(config, seed, use_ai) and
\* calls its _generate_solar_for_hour or _generate_consumption_for_hour
EntryLookup(which, use_ai, solar, consumption) ==
    /\ Idle
    /\ modules.sys_modules["simulator"] = "complete"
    /\ LET manager == IF use_ai /\ modules.AI_AVAILABLE
                      THEN ModelManager(solar, consumption) ELSE objects
       IN  /\ objects' = manager
           /\ cls' = IF manager = <<>> THEN cls
                     ELSE [_instance |-> 1, _initialized |-> TRUE]
           /\ stack' = <<Frame(GeneratorOf(which), which,
                               simulator_use_ai(use_ai, manager))>>
    /\ last' = [op |-> "lookup", which |-> which, use_ai |-> use_ai]
    /\ UNCHANGED <<modules, lookupFrame>>

\* the entry point asks a predictor of the ModelManager
EntryPredict(which) ==
    /\ Idle
    /\ cls._instance # 0
    /\ stack' = <<Frame("predict", which, FALSE)>>
    /\ last' = [op |-> "predict", which |-> which, use_ai |-> FALSE]
    /\ UNCHANGED <<cls, objects, modules, lookupFrame>>

\* _generate_solar_for_hour, _generate_consumption_for_hour
GenerateForHour ==
    /\ stack # <<>>
    /\ Top.fn \in Generators /\ Top.at = "call"
    /\ stack' = IF Top.use_ai
                THEN Call(Frame("predict", Top.which, Top.use_ai))
                ELSE ReplaceTop(stack, Done(Top, "simulation"))
    /\ UNCHANGED <<last, cls, objects, modules, lookupFrame>>

\* SolarPredictor.predict, ConsumptionPredictor.predict
Predict(outcome) ==
    /\ stack # <<>>
    /\ Top.fn = "predict" /\ Top.at = "call"
    /\ stack' = IF objects[1][Top.which] = "loaded" /\ outcome # "raises"
                THEN ReplaceTop(stack, Done(Top, outcome))
                ELSE Call(Frame("_fallback_predict", Top.which, Top.use_ai))
    /\ UNCHANGED <<last, cls, objects, modules, lookupFrame>>

\* _fallback_predict: EnergyDataSimulator(config, seed=42) and its
\* generate_environment_for_hour
FallbackPredict ==
    /\ stack # <<>>
    /\ Top.fn = "_fallback_predict" /\ Top.at = "call"
    /\ stack' = Call(Frame("_generate_hour", "solar",
                           simulator_use_ai(TRUE, objects)))
    /\ UNCHANGED <<last, cls, objects, modules, lookupFrame>>

\* _generate_hour: the solar, then the consumption of the hour
GenerateHourFrame ==
    /\ stack # <<>>
    /\ Top.fn = "_generate_hour" /\ Top.at = "call"
    /\ stack' = Call(Frame(GeneratorOf(Top.which), Top.which, Top.use_ai))
    /\ UNCHANGED <<last, cls, objects, modules, lookupFrame>>

\* a frame returns, or raises, to its caller
Return ==
    /\ stack # <<>>
    /\ Top.at = "done"
    /\ IF Len(stack) = 1
       THEN /\ stack' = <<>>
            /\ last' = [op |-> "returned", which |-> Top.fn,
                        use_ai |-> Top.use_ai, result |-> Top.result]
       ELSE /\ stack' = ReplaceTop(Pop(stack),
                                   Resume(stack[Len(stack) - 1], Top.result))
            /\ last' = last
    /\ UNCHANGED <<cls, objects, modules, lookupFrame>>

PredictOutcomes == {"prediction", "out_of_range", "raises"}

LookupStep ==
    \/ GenerateForHour
    \/ \E outcome \in PredictOutcomes : Predict(outcome)
    \/ FallbackPredict
    \/ GenerateHourFrame
    \/ Return

NextLookup ==
    \/ \E m \in ModuleNames : EntryImport(m)
    \/ ImportStatement
    \/ ImportRaise
    \/ ImportReturn
    \/ \E solar \in LoadOutcomes, consumption \in LoadOutcomes :
          EntryManager(solar, consumption)
    \/ \E which \in Predictors, use_ai \in BOOLEAN,
          solar \in LoadOutcomes, consumption \in LoadOutcomes :
            EntryLookup(which, use_ai, solar, consumption)
    \/ \E which \in Predictors : EntryPredict(which)
    \/ LookupStep

SpecLookup == InitLookup /\ [][NextLookup]_vars
\* a call in progress goes on: the interpreter runs the frame on top
FairLookup == SpecLookup /\ WF_vars(LookupStep)

(***************************************************************************)
(* The engine and the two _apply_action as functions: one call of decide   *)
(* or of either _apply_action, with any action, on any environment and a   *)
(* battery constructed at any state of charge.                             *)
(***************************************************************************)
\* states of charge on and around the thresholds 20, 40 and 95, in percent
CallSocs == {0, 15, 20, 25, 40, 45, 50, 90, 95, 100}
\* hours on and around the peak hours and the tariff's periods
CallHours == {0, 6, 7, 12, 17, 18, 21, 22, 23}
CallEnvironments ==
    { EnvironmentState(hour, choice[1], choice[2], get_price_for_hour(hour)) :
        hour \in CallHours, choice \in EnvironmentMenu }

InitCalls ==
    /\ \E capacity_kwh \in Capacities, initial_soc \in CallSocs :
          battery = NewBattery(capacity_kwh, initial_soc)
    /\ last = NoCall
    /\ mode = "none"
    /\ pc = "call"
    /\ environments = <<>>
    /\ initial_battery = NoSnapshot
    /\ actions = <<>>
    /\ result = SimulationResult
    /\ steps = <<>>
    /\ NoAdapter
    /\ NoManager

callVars == <<mode, environments, initial_battery, actions, result, steps,
              adapterVars, solved, managerVars>>

\* DecisionEngine.decide on a snapshot of the battery
Decide(env) ==
    /\ pc = "call"
    /\ pc' = "called"
    /\ last' = [op |-> "decide", env |-> env, snapshot |-> state(battery),
                action |-> decide(env, state(battery))]
    /\ UNCHANGED <<battery, callVars>>

\* SimulationRunner._apply_action
ApplyAction(action, env) ==
    LET a == apply_action(action, env, battery)
    IN  /\ pc = "call"
        /\ pc' = "called"
        /\ battery' = a.battery
        /\ last' = [op |-> "apply_action", env |-> env, action |-> action,
                    before |-> battery, applied |-> a]
        /\ UNCHANGED callVars

\* HybridSimulationAdapter._apply_action
HybridApplyAction(action, env) ==
    LET a == hybrid_apply_action(action, env, battery)
    IN  /\ pc = "call"
        /\ pc' = "called"
        /\ battery' = a.battery
        /\ last' = [op |-> "hybrid_apply_action", env |-> env, action |-> action,
                    before |-> battery, applied |-> a]
        /\ UNCHANGED callVars

NextCalls ==
    \/ \E env \in CallEnvironments : Decide(env)
    \/ \E action \in Action, env \in CallEnvironments : ApplyAction(action, env)
    \/ \E action \in Action, env \in CallEnvironments : HybridApplyAction(action, env)

SpecCalls == InitCalls /\ [][NextCalls]_vars

(***************************************************************************)
(* The decoding of one hour of a solution as a function: one call of       *)
(* _determine_action_from_solution on any values of the hour's variables.  *)
(***************************************************************************)
\* values on and around the tolerance: 0, 0.005, 0.01 and 0.01 + 1/KWH kWh,
\* and 1 kWh
SolutionValues ==
    {0, KWH \div 200, KWH \div 100, KWH \div 100 + 1, KWH}
Solutions ==
    [charge_rate : SolutionValues, discharge_rate : SolutionValues,
     grid_export : SolutionValues, grid_import : SolutionValues]

InitDecode ==
    /\ battery = NewBattery(RunCapacity, ADAPTER_INITIAL_SOC)
    /\ last = NoCall
    /\ mode = "none"
    /\ pc = "call"
    /\ environments = <<>>
    /\ initial_battery = NoSnapshot
    /\ actions = <<>>
    /\ result = SimulationResult
    /\ steps = <<>>
    /\ NoAdapter
    /\ NoManager

\* MILPDecisionEngine._determine_action_from_solution on the values v
DetermineAction(v) ==
    /\ pc = "call"
    /\ pc' = "called"
    /\ last' = [op |-> "determine_action_from_solution", v |-> v,
                action |-> determine_action_from_solution(v)]
    /\ UNCHANGED <<battery, callVars>>

NextDecode == \E v \in Solutions : DetermineAction(v)

SpecDecode == InitDecode /\ [][NextDecode]_vars

\* the total_cost SimulationRunner.run accumulates over envs[t..] from
\* battery b
RECURSIVE run_total_cost(_, _, _)
run_total_cost(envs, b, t) ==
    IF t > Len(envs) THEN 0
    ELSE LET a == apply_action(decide(envs[t], state(b)), envs[t], b)
         IN  hour_cost(a.grid_import, a.grid_export, envs[t].price)
             + run_total_cost(envs, a.battery, t + 1)

(***************************************************************************)
(* Exactness of the arithmetic                                             *)
(***************************************************************************)
\* under SpecBattery no multiplication or division by the efficiency or by
\* 100 dropped a remainder
ExactBattery ==
    /\ battery.charge_kwh % 600 = 0
    /\ (battery.capacity_kwh * MIN_SOC) % 100 = 0
    /\ (battery.capacity_kwh * MAX_SOC) % 100 = 0
    /\ last.op = "charge" /\ last.arg > 0 =>
          /\ ExactOverEfficiency(MaxLevel - last.before)
          /\ ExactTimesEfficiency(last.first)
    /\ last.op = "discharge" /\ last.arg > 0 =>
          /\ ExactOverEfficiency(last.arg)
          /\ ExactTimesEfficiency(last.first)
    /\ last.op = "round_trip" /\ last.arg > 0 =>
          /\ ExactOverEfficiency(MaxLevel - last.before)
          /\ ExactTimesEfficiency(last.arg)
          /\ last.first % 600 = 0

\* under Spec no call on the battery dropped a remainder, and in MILP mode
\* the battery's level stays on the solver model's lattice
ExactRun ==
    /\ battery.charge_kwh % 600 = 0
    /\ \A i \in 1 .. Len(steps) :
          /\ steps[i].call = "charge" =>
                /\ ExactOverEfficiency(MaxLevel - steps[i].before)
                /\ ExactTimesEfficiency(steps[i].first)
          /\ steps[i].call = "discharge" =>
                /\ ExactOverEfficiency(steps[i].arg)
                /\ ExactTimesEfficiency(steps[i].first)
    /\ mode = "milp" => battery.charge_kwh % LatticeStep = 0
    /\ \A i \in 1 .. Len(environments) :
          LET net == environments[i].solar_kwh - environments[i].load_kwh
          IN  /\ net > 0 => ExactTimesEfficiency(net)
              /\ net < 0 => ExactOverEfficiency(-net)

(***************************************************************************)
(* The battery's own interface (SpecBattery)                               *)
(***************************************************************************)
InBand(level) == MinLevel <= level /\ level <= MaxLevel

\* C1 as stated: in every state reachable after construction with accepted
\* arguments and any charge, discharge and reset calls, the stored energy is
\* between MIN_SOC * capacity and MAX_SOC * capacity.
C1_SocInvariant == SocInvariant

\* C1, amended: the stored energy is always between 0 and the capacity; a
\* construction or reset with an accepted soc sets it to capacity * soc,
\* whatever the SOC bounds; a rejected reset leaves it as it was; and a
\* charge or discharge call made with the stored energy within the SOC
\* bounds leaves it within them.
C1_SocInvariantFromWithin ==
    /\ 0 <= battery.charge_kwh /\ battery.charge_kwh <= battery.capacity_kwh
    /\ last.op = "reset" => battery.charge_kwh = LevelAt(battery.capacity_kwh, last.arg)
    /\ last.op = "reset_raised" => battery.charge_kwh = last.before
    /\ last.op \in {"charge", "discharge"} /\ InBand(last.before) => SocInvariant

\* a charge from within the bounds, offered more than fits, stopped at MAX_SOC
C1_Witness ==
    /\ last.op = "charge"
    /\ InBand(last.before)
    /\ last.before < MaxLevel
    /\ last.arg > OverEfficiency(MaxLevel - last.before)
    /\ battery.charge_kwh = MaxLevel

\* C2 as stated: after charge(a) with a > 0 from any reachable state,
\* 0 <= stored <= consumed <= min(a, MAX_CHARGE_RATE_KW),
\* stored = consumed * CHARGE_EFFICIENCY, the stored energy rose by stored
\* and the resulting SOC is at most MAX_SOC.
C2_ChargePostcondition ==
    last.op = "charge" /\ last.arg > 0 =>
        /\ 0 <= last.second
        /\ last.second <= last.first
        /\ last.first <= Min2(last.arg, MAX_CHARGE_RATE_KW * KWH)
        /\ last.second = TimesEfficiency(last.first)
        /\ battery.charge_kwh = last.before + last.second
        /\ battery.charge_kwh <= MaxLevel

\* C3 as stated: after discharge(d) with d > 0 from any reachable state,
\* 0 <= delivered <= drawn <= MAX_DISCHARGE_RATE_KW, delivered <= d,
\* delivered = drawn * DISCHARGE_EFFICIENCY, the stored energy fell by drawn
\* and the resulting SOC is at least MIN_SOC.
C3_DischargePostcondition ==
    last.op = "discharge" /\ last.arg > 0 =>
        /\ 0 <= last.second
        /\ last.second <= last.first
        /\ last.first <= MAX_DISCHARGE_RATE_KW * KWH
        /\ last.second <= last.arg
        /\ last.second = TimesEfficiency(last.first)
        /\ battery.charge_kwh = last.before - last.first
        /\ battery.charge_kwh >= MinLevel

(***************************************************************************)
(* The engine and _apply_action as functions (SpecCalls)                   *)
(***************************************************************************)
\* C8: decide returns CHARGE_BATTERY when net >= 0 and soc < 0.95,
\* SELL_TO_GRID when net >= 0 and soc >= 0.95, DISCHARGE_BATTERY when net < 0
\* and soc > 0.20, USE_GRID when net < 0 and soc <= 0.20, in a peak hour too;
\* net = 0 counts as surplus and IDLE is never returned.
C8_DecisionTable ==
    last.op = "decide" =>
        LET net == last.env.solar_kwh - last.env.load_kwh
            soc100 == last.snapshot.charge_kwh * 100
            cap == last.snapshot.capacity_kwh
        IN  /\ net >= 0 /\ soc100 < 95 * cap => last.action = CHARGE_BATTERY
            /\ net >= 0 /\ soc100 >= 95 * cap => last.action = SELL_TO_GRID
            /\ net < 0 /\ soc100 > 20 * cap => last.action = DISCHARGE_BATTERY
            /\ net < 0 /\ soc100 <= 20 * cap => last.action = USE_GRID
            /\ last.action # IDLE

\* a deficit in a peak hour decided with the soc exactly 0.20
C8_Witness ==
    /\ last.op = "decide"
    /\ last.env.hour \in 18 .. 21
    /\ last.env.solar_kwh < last.env.load_kwh
    /\ last.snapshot.charge_kwh * 100 = 20 * last.snapshot.capacity_kwh
    /\ last.action = USE_GRID

\* C9: with net = solar - load, both _apply_action give
\* CHARGE_BATTERY -> (0, 0), calling battery.charge(net) only if net > 0;
\* DISCHARGE_BATTERY -> (|net| - delivered, 0), calling
\* battery.discharge(|net|), only if net < 0, else (0, 0);
\* SELL_TO_GRID -> (0, net) if net > 0 else (0, 0);
\* USE_GRID -> (|net|, 0) if net < 0 else (0, 0); IDLE -> (0, 0);
\* and the battery is unchanged where neither charge nor discharge is called.
C9_ApplyMapping ==
    last.op \in {"apply_action", "hybrid_apply_action"} =>
        LET net == last.env.solar_kwh - last.env.load_kwh
            a == last.applied
            NoBatteryCall == a.call = "none" /\ a.battery = last.before
        IN  /\ last.action = CHARGE_BATTERY /\ net > 0 =>
                /\ a.grid_import = 0 /\ a.grid_export = 0
                /\ a.call = "charge" /\ a.arg = net
                /\ a.battery = charge(last.before, net).battery
            /\ last.action = CHARGE_BATTERY /\ net <= 0 =>
                a.grid_import = 0 /\ a.grid_export = 0 /\ NoBatteryCall
            /\ last.action = DISCHARGE_BATTERY /\ net < 0 =>
                /\ a.grid_import = -net - a.second /\ a.grid_export = 0
                /\ a.call = "discharge" /\ a.arg = -net
                /\ a.second = discharge(last.before, -net).energy_delivered
                /\ a.battery = discharge(last.before, -net).battery
            /\ last.action = DISCHARGE_BATTERY /\ net >= 0 =>
                a.grid_import = 0 /\ a.grid_export = 0 /\ NoBatteryCall
            /\ last.action = SELL_TO_GRID =>
                /\ a.grid_import = 0
                /\ a.grid_export = (IF net > 0 THEN net ELSE 0)
                /\ NoBatteryCall
            /\ last.action = USE_GRID =>
                /\ a.grid_import = (IF net < 0 THEN -net ELSE 0)
                /\ a.grid_export = 0
                /\ NoBatteryCall
            /\ last.action = IDLE =>
                a.grid_import = 0 /\ a.grid_export = 0 /\ NoBatteryCall

\* the adapter's DISCHARGE_BATTERY in a deficit the battery covers in part
C9_Witness ==
    /\ last.op = "hybrid_apply_action"
    /\ last.action = DISCHARGE_BATTERY
    /\ last.env.solar_kwh < last.env.load_kwh
    /\ last.applied.second > 0
    /\ last.applied.grid_import > 0
    /\ last.applied.battery.charge_kwh < last.before.charge_kwh

(***************************************************************************)
(* Runs (Spec)                                                             *)
(***************************************************************************)
StartsInBand == InBand(initial_battery.charge_kwh)
Reports == result.hourly_data

\* C4 as stated: over a finished run in either mode,
\* sum(load) + sum(grid_export) + (final charge - initial charge)
\* <= sum(solar) + sum(grid_import), up to 1%.
C4_NoEnergyCreation ==
    pc = "done" =>
        100 * (result.total_consumption + result.total_grid_export
               + (battery.charge_kwh - initial_battery.charge_kwh))
            <= 101 * (result.total_solar + result.total_grid_usage)

\* C5: in a run of either mode whose battery starts within the SOC bounds,
\* the battery_level of every hourly report is between MIN_SOC * capacity
\* and MAX_SOC * capacity.
C5_ReportedLevelWithinBounds ==
    StartsInBand =>
        \A i \in 1 .. Len(Reports) :
            /\ MinLevel <= Reports[i].battery_level
            /\ Reports[i].battery_level <= MaxLevel

\* a finished MILP run from within the bounds that reports the battery at
\* MAX_SOC * capacity in one hour and at MIN_SOC * capacity in another
C5_Witness ==
    /\ pc = "done"
    /\ mode = "milp"
    /\ StartsInBand
    /\ \E i, j \in 1 .. Len(Reports) :
          /\ Reports[i].battery_level = MaxLevel
          /\ Reports[j].battery_level = MinLevel

\* C6: in every hour of every run, in either mode and from any battery
\* state, the reported grid_import (grid_usage) and grid_export are both
\* >= 0 and at most one of them is positive.
C6_GridFlows ==
    \A i \in 1 .. Len(Reports) :
        /\ Reports[i].grid_usage >= 0
        /\ Reports[i].grid_export >= 0
        /\ ~(Reports[i].grid_usage > 0 /\ Reports[i].grid_export > 0)

\* a finished run that started below MIN_SOC, with an hour in which the
\* battery covered a part of the deficit and an hour that exported
C6_Witness ==
    /\ pc = "done"
    /\ initial_battery.charge_kwh < MinLevel
    /\ \E i, j \in 1 .. Len(steps) :
          /\ steps[i].call = "discharge"
          /\ steps[i].second > 0
          /\ steps[i].grid_import > 0
          /\ steps[j].grid_export > 0

\* C7 as stated: for every environment sequence and initial SOC, the total
\* cost of the replayed MILP schedule is at most the total cost of the
\* rule-based run on the same environments from the same initial SOC, plus
\* 1% of its absolute value.
C7_ReplayNotCostlier ==
    pc = "done" /\ mode = "milp" =>
        LET rule_total_cost ==
                run_total_cost(environments,
                               [capacity_kwh |-> initial_battery.capacity_kwh,
                                charge_kwh |-> initial_battery.charge_kwh], 1)
        IN  result.total_cost - rule_total_cost <= Abs(rule_total_cost) \div 100

\* C10: a run produces exactly one report per hour, in ascending order of
\* the hours; in rule mode the decision of hour t is taken on the battery
\* state hour t-1 left, before hour t's battery call; in MILP mode the
\* battery is as at entry until the schedule is solved, and the replay
\* applies the schedule's actions in ascending order of the hours.
C10_Ordering ==
    /\ pc = "done" => Len(Reports) = Hours
    /\ Len(steps) = Len(Reports)
    /\ \A i \in 1 .. Len(Reports) : Reports[i].hour = HourOf(i)
    /\ \A i \in 1 .. Len(steps) :
          LET left == IF i = 1 THEN initial_battery ELSE steps[i - 1].battery_state
          IN  /\ steps[i].before = left.charge_kwh
              /\ mode = "rule" =>
                    /\ steps[i].snapshot = left
                    /\ steps[i].action = decide(environments[i], left)
              /\ mode = "milp" =>
                    /\ steps[i].action = actions[i]
                    /\ Reports[i].action = actions[i]
    /\ Len(steps) > 0 => state(battery) = steps[Len(steps)].battery_state
    /\ mode = "milp" /\ pc \in {"solve", "replay"} /\ steps = <<>> =>
          state(battery) = initial_battery

\* a finished rule run in which every hour changed the stored energy
C10_Witness ==
    /\ pc = "done"
    /\ mode = "rule"
    /\ Len(steps) = Hours
    /\ \A i \in 1 .. Len(steps) :
          steps[i].battery_state.charge_kwh # steps[i].before

(***************************************************************************)
(* Two runs (SpecTwice)                                                    *)
(***************************************************************************)
\* the second adapter was constructed in the mode of the first and its run,
\* started from the battery state the first run started from, has returned
RanTwice ==
    /\ pc = "done"
    /\ Len(previous) = 1
    /\ previous[1].mode = mode
    /\ previous[1].initial_battery = initial_battery

\* the solver was given the problem of the first run again
SolvedTwice ==
    /\ pc \in {"replay", "done"}
    /\ mode = "milp"
    /\ Len(previous) = 1
    /\ previous[1].mode = "milp"
    /\ previous[1].environments = environments
    /\ previous[1].initial_battery = initial_battery

RECURSIVE SumTo(_, _)
SumTo(f, n) == IF n = 0 THEN 0 ELSE f[n] + SumTo(f, n - 1)

\* C12 as stated: in both modes a finished run returns
\* total_cost = sum of cost[t] = grid_import[t] * price[t]
\* - grid_export[t] * EXPORT_PRICE, and total_savings = sum of
\* savings[t] = max(0, load - solar) * price - cost[t].
C12_Totals ==
    pc = "done" =>
        LET n == Len(steps)
            env(t) == environments[t]
        IN  /\ \A t \in 1 .. n :
                  /\ steps[t].cost =
                        steps[t].grid_import * env(t).price
                        - steps[t].grid_export * GRID_EXPORT_PRICE
                  /\ steps[t].savings =
                        Max2(0, env(t).load_kwh - env(t).solar_kwh) * env(t).price
                        - steps[t].cost
            /\ result.total_cost = SumTo([t \in 1 .. n |-> steps[t].cost], n)
            /\ result.total_savings = SumTo([t \in 1 .. n |-> steps[t].savings], n)

\* the part of C12 that holds in both modes: the per-hour cost and savings
\* and total_cost; and total_savings in MILP mode
C12_TotalCost ==
    pc = "done" =>
        LET n == Len(steps)
        IN  /\ result.total_cost = SumTo([t \in 1 .. n |-> steps[t].cost], n)
            /\ mode = "milp" =>
                  result.total_savings = SumTo([t \in 1 .. n |-> steps[t].savings], n)
            /\ mode = "rule" => result.total_savings = 0

(***************************************************************************)
(* A charge-discharge cycle (SpecBattery)                                  *)
(***************************************************************************)
\* the last call was a cycle with x > 0 from a level within the SOC bounds
CycledInBand ==
    /\ last.op = "round_trip"
    /\ last.arg > 0
    /\ InBand(last.before)

\* C13 as stated: from every battery state within the bounds and for every
\* x > 0, charge(x) followed by discharge(x * EFFICIENCY) leaves the level
\* strictly below the level before.
C13_RoundTripLoss ==
    CycledInBand => battery.charge_kwh < last.before

\* C13, amended: the cycle never leaves the level above the level before; it
\* leaves it strictly below when the level before was above
\* MIN_SOC * capacity, and where it was when the level before was exactly
\* MIN_SOC * capacity.
C13_RoundTripLossAboveMin ==
    CycledInBand =>
        /\ battery.charge_kwh <= last.before
        /\ last.before > MinLevel => battery.charge_kwh < last.before
        /\ last.before = MinLevel => battery.charge_kwh = last.before

\* a cycle from within the bounds that stored energy and ended strictly
\* below the level it started from
C13_Witness ==
    /\ CycledInBand
    /\ last.first > last.before
    /\ battery.charge_kwh < last.before

(***************************************************************************)
(* The replay of a MILP schedule (Spec)                                    *)
(***************************************************************************)
\* what the battery took and gave in step i of the run
ConsumedByBattery(i) == IF steps[i].call = "charge" THEN steps[i].first ELSE 0
DeliveredFromBattery(i) == IF steps[i].call = "discharge" THEN steps[i].second ELSE 0

\* the hour's energy account: sources = sinks
HourBalanced(i) ==
    environments[i].solar_kwh + DeliveredFromBattery(i) + steps[i].grid_import
        = environments[i].load_kwh + ConsumedByBattery(i) + steps[i].grid_export

\* C14 as stated: every hour of the replay of a MILP schedule satisfies
\* solar + delivered_from_battery + grid_import
\*     = load + consumed_by_battery + grid_export.
C14_ReplayAccounting ==
    mode = "milp" => \A i \in 1 .. Len(steps) : HourBalanced(i)

\* the same for the replay of an optimal schedule from the state of charge
\* the adapter constructs its battery at
C14_OptimalReplayAccounting ==
    ( /\ mode = "milp"
      /\ solved.status = "Optimal"
      /\ initial_battery = state(NewBattery(RunCapacity, ADAPTER_INITIAL_SOC)) ) =>
        \A i \in 1 .. Len(steps) : HourBalanced(i)

(***************************************************************************)
(* The decoding of a solution (SpecDecode)                                 *)
(***************************************************************************)
Decoded == last.op = "determine_action_from_solution"
\* v is above the tolerance of 0.01 kWh
Above(x) == 100 * x > KWH

\* C15: with tolerance 0.01 the decoded action is CHARGE_BATTERY exactly
\* when charge_rate > 0.01; DISCHARGE_BATTERY exactly when it is not and
\* discharge_rate > 0.01; SELL_TO_GRID exactly when neither is and
\* grid_export > 0.01; USE_GRID exactly when none of these is and
\* grid_import > 0.01; IDLE exactly when all four are at most 0.01.  So an
\* hour with both charge and export above the tolerance decodes as charging.
C15_Decoding ==
    Decoded =>
        LET v == last.v
            a == last.action
        IN  /\ a = CHARGE_BATTERY <=> Above(v.charge_rate)
            /\ a = DISCHARGE_BATTERY <=>
                  ~Above(v.charge_rate) /\ Above(v.discharge_rate)
            /\ a = SELL_TO_GRID <=>
                  /\ ~Above(v.charge_rate) /\ ~Above(v.discharge_rate)
                  /\ Above(v.grid_export)
            /\ a = USE_GRID <=>
                  /\ ~Above(v.charge_rate) /\ ~Above(v.discharge_rate)
                  /\ ~Above(v.grid_export) /\ Above(v.grid_import)
            /\ a = IDLE <=>
                  /\ ~Above(v.charge_rate) /\ ~Above(v.discharge_rate)
                  /\ ~Above(v.grid_export) /\ ~Above(v.grid_import)
            /\ Above(v.charge_rate) /\ Above(v.grid_export) => a = CHARGE_BATTERY

\* an hour with both charge and export just above the tolerance was decoded
\* as charging
C15_Witness ==
    /\ Decoded
    /\ last.v.charge_rate = KWH \div 100 + 1
    /\ last.v.grid_export = KWH \div 100 + 1
    /\ last.action = CHARGE_BATTERY

(***************************************************************************)
(* A solver status other than Optimal (SpecOversized)                      *)
(***************************************************************************)
NotOptimal == solved.status \notin {"none", "Optimal"}

\* C16 as stated: when the solver's status is not Optimal but values exist,
\* optimize_schedule still returns one decoded action per hour and the
\* result of the run is marked sub-optimal; when no values exist, a failure
\* is raised and neither an action list nor a result is returned.
C16_SolverStatusHandling ==
    /\ NotOptimal /\ solved.actions # <<>> =>
          /\ pc \in {"replay", "done"}
          /\ Len(actions) = Hours
          /\ pc = "done" =>
                /\ "suboptimal" \in DOMAIN result
                /\ result.suboptimal
    /\ NotOptimal /\ solved.actions = <<>> =>
          /\ pc = "raised"
          /\ actions = <<>>
          /\ result = SimulationResult

\* what the code does with a status other than Optimal: with values, one
\* decoded action per hour and a result like any other; without, it raises
C16_UnmarkedResult ==
    /\ NotOptimal /\ solved.actions # <<>> =>
          /\ pc \in {"replay", "done"}
          /\ Len(actions) = Hours
          /\ DOMAIN result = DOMAIN SimulationResult
    /\ NotOptimal /\ solved.actions = <<>> =>
          /\ pc = "raised"
          /\ actions = <<>>
          /\ result = SimulationResult

(***************************************************************************)
(* compare_optimizations (SpecTwice)                                       *)
(***************************************************************************)
Compared == last.op = "compare_optimizations"

\* what C17 says of the comparison returned
ComparedAsSpecified ==
    LET rule == previous[1]
    IN  /\ rule.mode = "rule" /\ mode = "milp"
        /\ Len(rule.environments) = Hours
        /\ environments = rule.environments
        /\ initial_battery = rule.initial_battery
        /\ initial_battery = state(NewBattery(RunCapacity, ADAPTER_INITIAL_SOC))
        /\ last.cost_savings = rule.result.total_cost - result.total_cost
        /\ last.different_decisions_count =
              Cardinality({ t \in 1 .. Hours : rule.steps[t].action # actions[t] })

\* C17 as stated: compare runs the rule engine and the MILP engine on the
\* identical environment sequence, each with its own fresh battery at the
\* same initial SOC, and returns cost_savings = rule.total_cost
\* - milp.total_cost and different_decisions = the number of hours in which
\* the two actions differ.
C17_Compare == Compared => ComparedAsSpecified

\* the same when the seed is an integer
C17_SeededCompare == Compared /\ seed # NoSeed => ComparedAsSpecified

(***************************************************************************)
(* compare_modes (SpecModes)                                               *)
(***************************************************************************)
\* C18 as stated: compare_modes, on an adapter constructed in either mode,
\* completes both runs and returns the comparison without raising.
C18_CompareModesReturns == pc # "raised"

\* what compare_modes does: on an adapter constructed in MILP mode it raises
\* before the first run, on one constructed in rule mode it finishes the
\* rule-based run and raises at the call of the solver
C18_CompareModesRaises ==
    /\ engine = "MILPDecisionEngine" =>
          /\ pc \in {"ready", "raised"}
          /\ pc = "raised" => last = AttributeError("HybridSimulationAdapter", "_runner")
    /\ engine = "DecisionEngine" =>
          /\ pc \in {"ready", "loop", "done", "raised"}
          /\ pc = "raised" =>
                /\ last = AttributeError("DecisionEngine", "optimize_schedule")
                /\ Len(previous) = 1
                /\ Len(previous[1].result.hourly_data) = Hours
    /\ pc # "solve"

(***************************************************************************)
(* The forecast fallback (SpecGenerator)                                   *)
(***************************************************************************)
Generated == last.op = "_generate_hour"
\* the provider is there, predict returned, and the value is within 0 and
\* maximum kWh
Usable(outcome, maximum) ==
    /\ outcome.kind = "number"
    /\ 0 <= outcome.value
    /\ outcome.value <= maximum * KWH

\* C19: for every hour, if the provider is absent, raises, or returns a
\* value outside [0, 15] kWh for solar or [0, 10] kWh for load, the hour's
\* value is the synthetic one (otherwise it is the provider's), and the
\* generation of the hour does not fail.
C19_ForecastFallback ==
    /\ pc # "raised"
    /\ Generated =>
          /\ last.env.solar_kwh =
                IF Usable(last.solar, 15) THEN last.solar.value
                ELSE last.solar_simulation
          /\ last.env.load_kwh =
                IF Usable(last.load, 10) THEN last.load.value
                ELSE last.load_simulation
          /\ last.env.hour = last.hour
          /\ last.env.price = get_price_for_hour(last.hour)

\* an hour in which the solar prediction was just above 15 kWh and the load
\* prediction raised, and both values are the synthetic ones
C19_Witness ==
    /\ Generated
    /\ last.solar = Outcome("number", 15 * KWH + 1)
    /\ last.load.kind = "raises"
    /\ last.env.solar_kwh = last.solar_simulation
    /\ last.env.load_kwh = last.load_simulation
    /\ last.solar_simulation > 0

(***************************************************************************)
(* The ModelManager singleton under concurrency (SpecManager)              *)
(***************************************************************************)
RECURSIVE Loads(_)
\* the number of predictors the workers 1 .. w have constructed
Loads(w) == IF w = 0 THEN 0 ELSE workers[w].loads + Loads(w - 1)

\* the workers whose ModelManager() has returned
Holders == { w \in DOMAIN workers : workers[w].ai_manager # 0 }

\* C20: when several workers call ModelManager() concurrently, the two
\* predictors are loaded exactly once, every worker obtains the same
\* instance, fully initialised, and no worker sees an instance whose solar
\* or consumption predictor is not set.
C20_Singleton ==
    /\ Holders # {} => Loads(Len(workers)) = 2
    /\ \A v \in Holders, w \in Holders :
          workers[v].ai_manager = workers[w].ai_manager
    /\ \A w \in Holders :
          /\ objects[workers[w].ai_manager].solar # 0
          /\ objects[workers[w].ai_manager].consumption # 0
          /\ Initialized(workers[w].ai_manager)
          /\ workers[w].pc = "used" =>
                workers[w].solar # 0 /\ workers[w].consumption # 0

\* the part of C20 that the code keeps: the instance a worker's
\* ModelManager() returned has both predictors set and is marked initialised
C20_PredictorsSet ==
    \A w \in Holders :
        /\ objects[workers[w].ai_manager].solar # 0
        /\ objects[workers[w].ai_manager].consumption # 0
        /\ Initialized(workers[w].ai_manager)
        /\ workers[w].pc = "used" =>
              workers[w].solar # 0 /\ workers[w].consumption # 0

\* two workers hold two different instances
C20_TwoInstances ==
    \E v \in Holders, w \in Holders :
        workers[v].ai_manager # workers[w].ai_manager

\* the predictors were constructed more than once for one instance
C20_LoadedTwice ==
    /\ Len(objects) = 1
    /\ Holders = DOMAIN workers
    /\ Loads(Len(workers)) > 2

(***************************************************************************)
(* The generator's determinism (SpecRepeat)                                *)
(***************************************************************************)
\* the hours of a returned tuple are those of the day, in ascending order
Ascending(envs) ==
    /\ Len(envs) = Hours
    /\ \A i \in 1 .. Hours : envs[i].hour = HourOf(i)

\* C21: with the provider absent or deterministic, every call of
\* generate_24h_environment for a given config and (integer) seed returns
\* the same tuple, on a simulator constructed anew and on a repeated call of
\* one simulator alike, with the hours in ascending order.
C21_GeneratorDeterminism ==
    /\ \A i \in 1 .. Len(previous) : Ascending(previous[i].environments)
    /\ seed # NoSeed =>
          \A i \in 1 .. Len(previous), j \in 1 .. Len(previous) :
              previous[i].environments = previous[j].environments

\* what the code keeps of C21: with an integer seed the tuple is a function
\* of how many calls the simulator has answered before; with a provider that
\* answers every hour it is the same in every call
C21_SameCallDeterminism ==
    /\ \A i \in 1 .. Len(previous) : Ascending(previous[i].environments)
    /\ seed # NoSeed =>
          \A i \in 1 .. Len(previous), j \in 1 .. Len(previous) :
              (previous[i].call = previous[j].call \/ last.use_ai)
                  => previous[i].environments = previous[j].environments

\* two simulators of one integer seed have each answered a first call, and
\* one of them a second call with other environments
C21_Repeated ==
    /\ seed # NoSeed
    /\ Len(previous) = 3
    /\ previous[1].call = 1 /\ previous[2].call = 2 /\ previous[3].call = 1
    /\ previous[1].environments # previous[2].environments
    /\ previous[1].environments = previous[3].environments

(***************************************************************************)
(* Amounts that are not positive (SpecBattery)                             *)
(***************************************************************************)
\* C22: for every battery state, charge(a) with a <= 0 and discharge(d) with
\* d <= 0 return (0, 0) and leave charge_kwh and capacity_kwh as they were.
C22_NonPositiveNoOp ==
    [][(last'.op \in {"charge", "discharge"} /\ last'.arg <= 0)
          => /\ last'.first = 0 /\ last'.second = 0
             /\ battery'.charge_kwh = battery.charge_kwh
             /\ battery'.capacity_kwh = battery.capacity_kwh
             /\ last'.before = battery.charge_kwh]_vars

\* charge of a negative amount was called on a battery that is neither
\* empty nor full, and the level is what it was
C22_Witness ==
    /\ last.op = "charge"
    /\ last.arg < 0
    /\ last.first = 0 /\ last.second = 0
    /\ battery.charge_kwh = last.before
    /\ MinLevel < battery.charge_kwh /\ battery.charge_kwh < MaxLevel

(***************************************************************************)
(* The snapshot of the battery (SpecSnapshot)                              *)
(***************************************************************************)
\* C23: a BatteryState obtained from battery.state keeps its values through
\* every later charge, discharge and reset of the battery, and neither
\* decide nor optimize_schedule changes the snapshot it is given or the
\* battery the snapshot was taken from.
C23_SnapshotImmutable ==
    [][/\ initial_battery # NoSnapshot => initial_battery' = initial_battery
       /\ (last'.op = "decide" \/ (pc = "solve" /\ pc' # "solve"))
             => battery' = battery]_vars

\* the snapshot was taken at 50 percent, the battery has been reset to
\* another level since, and the snapshot still gives 50 percent
C23_Witness ==
    /\ initial_battery = state(NewBattery(RunCapacity, 50))
    /\ last.op = "reset"
    /\ battery.charge_kwh # initial_battery.charge_kwh
    /\ pc = "replay"

(***************************************************************************)
(* The validation of the battery's arguments (SpecValidation)              *)
(***************************************************************************)
\* a state of charge within [0, 1], in percent
ValidSoc(soc) == 0 <= soc /\ soc <= 100

\* C24: Battery(capacity, initial_soc) with capacity <= 0 or initial_soc
\* outside [0, 1] fails and yields no battery; reset(soc) with soc outside
\* [0, 1] fails and leaves charge_kwh as it was; run(initial_soc) with such
\* an initial_soc fails before any environment is generated and before any
\* hour is simulated.
C24_ArgumentValidation ==
    [][/\ (last' # last /\ last'.op \in {"init", "init_raised"})
             => /\ last'.op = "init_raised"
                    <=> (last'.first <= 0 \/ ~ValidSoc(last'.arg))
                /\ last'.op = "init_raised" => battery' = battery
                /\ last'.op = "init"
                    => battery' = NewBattery(last'.first, last'.arg)
       /\ (last' # last /\ last'.op \in {"reset", "reset_raised"})
             => /\ last'.op = "reset_raised" <=> ~ValidSoc(last'.arg)
                /\ last'.op = "reset_raised" => battery' = battery
       /\ (pc = "ready" /\ pc' = "raised")
             => /\ battery' = battery
                /\ environments' = <<>> /\ steps' = <<>>
                /\ result' = SimulationResult
       /\ (pc = "ready" /\ pc' = "loop")
             => /\ 0 <= battery'.charge_kwh
                /\ battery'.charge_kwh <= battery'.capacity_kwh
       /\ pc = "raised" => pc' = "raised" /\ environments' = <<>> /\ steps' = <<>>
      ]_vars

\* the constructor has rejected its arguments, the battery the caller holds
\* is the one it held, and run(initial_soc) with a soc outside [0, 1] has
\* raised with no environment generated
C24_Witness ==
    /\ last.op = "init_raised"
    /\ battery.charge_kwh = last.before
    /\ pc = "raised"
    /\ environments = <<>>
    /\ steps = <<>>

(***************************************************************************)
(* The sign of the hour and the action of the rule engine (Spec)           *)
(***************************************************************************)
\* solar - load of the hour t of the run
NetOf(t) == environments[t].solar_kwh - environments[t].load_kwh
\* what the battery delivered in the hour t
DeliveredIn(t) == IF steps[t].call = "discharge" THEN steps[t].second ELSE 0

\* C25: in every hour of every rule-mode run, CHARGE_BATTERY and
\* SELL_TO_GRID are chosen only when net >= 0 and DISCHARGE_BATTERY and
\* USE_GRID only when net < 0, and every deficit is covered in full by what
\* the battery delivers and the grid import: grid_import + delivered = |net|.
C25_NoWrongSign ==
    mode = "rule" =>
        \A t \in 1 .. Len(steps) :
            /\ steps[t].action \in {CHARGE_BATTERY, SELL_TO_GRID} <=> NetOf(t) >= 0
            /\ steps[t].action \in {DISCHARGE_BATTERY, USE_GRID} <=> NetOf(t) < 0
            /\ NetOf(t) < 0 =>
                  steps[t].grid_import + DeliveredIn(t) = Abs(NetOf(t))

\* a finished rule-mode run with an hour in balance, and an hour of deficit
\* that the battery and the grid covered together
C25_Witness ==
    /\ mode = "rule"
    /\ pc = "done"
    /\ \E t \in 1 .. Len(steps) : NetOf(t) = 0
    /\ \E t \in 1 .. Len(steps) :
          /\ steps[t].action = DISCHARGE_BATTERY
          /\ DeliveredIn(t) > 0
          /\ steps[t].grid_import > 0

(***************************************************************************)
(* The battery calls of a rule-mode run (Spec)                             *)
(***************************************************************************)
\* how far a level lies outside [MIN_SOC, MAX_SOC] * capacity_kwh
OutsideBand(level) ==
    Max2(0, Max2(MinLevel - level, level - MaxLevel))

\* C26: in a rule-mode run started from any SOC in [0, 1], charge is called
\* only while soc < MAX_SOC and discharge only while soc > MIN_SOC; every
\* amount the battery returns is >= 0, and no hour moves the level further
\* away from the band [MIN_SOC, MAX_SOC].
C26_CallsWithinBand ==
    mode = "rule" =>
        \A t \in 1 .. Len(steps) :
            /\ steps[t].call = "charge" => SocBelow(steps[t].snapshot, MAX_SOC)
            /\ steps[t].call = "discharge" => SocAbove(steps[t].snapshot, MIN_SOC)
            /\ steps[t].snapshot.charge_kwh = steps[t].before
            /\ steps[t].first >= 0 /\ steps[t].second >= 0
            /\ OutsideBand(steps[t].battery_state.charge_kwh)
                  <= OutsideBand(steps[t].before)

\* a finished rule-mode run that started above the band and discharged, and
\* one hour of which started at the band's lower end with a deficit
C26_Witness ==
    /\ mode = "rule"
    /\ pc = "done"
    /\ steps[1].before > MaxLevel
    /\ steps[1].call = "discharge"
    /\ steps[1].first > 0
    /\ \E t \in 1 .. Len(steps) :
          /\ steps[t].before = MinLevel
          /\ NetOf(t) < 0
          /\ steps[t].call = "none"

(***************************************************************************)
(* The hour and the price in the rule engine's decision (SpecCalls)        *)
(***************************************************************************)
\* the tariff's prices, a price below GRID_EXPORT_PRICE and one above all
AnyPrices == {PRICING_NIGHT, PRICING_NORMAL, PRICING_PEAK, 100, 5000}

\* C27: the action of decide depends on solar, load and soc only: with the
\* same solar and load and the same snapshot, decide returns the same action
\* for every hour and every price; the peak-hour branch with the threshold
\* 0.40 never changes the outcome.
C27_HourAndPriceIrrelevant ==
    last.op = "decide" =>
        \A hour \in 0 .. (HOURS_PER_DAY - 1), price \in AnyPrices :
            decide(EnvironmentState(hour, last.env.solar_kwh,
                                    last.env.load_kwh, price),
                   last.snapshot) = last.action

\* a deficit in a peak hour decided with the soc between 0.20 and 0.40: the
\* battery is discharged, as in every other hour
C27_Witness ==
    /\ last.op = "decide"
    /\ last.env.hour \in peak_hours
    /\ last.env.solar_kwh < last.env.load_kwh
    /\ SocAbove(last.snapshot, min_soc_threshold)
    /\ SocBelow(last.snapshot, peak_soc_threshold)
    /\ last.action = DISCHARGE_BATTERY

(***************************************************************************)
(* The cost of an hour against the hour without a battery (Spec)           *)
(***************************************************************************)
\* max(0, load - solar) * price of the hour t
BaselineCost(t) ==
    Max2(0, environments[t].load_kwh - environments[t].solar_kwh)
        * environments[t].price

\* C28: in every hour of every rule-mode run started within the SOC bounds,
\* cost[t] <= max(0, load - solar) * price, that is savings[t] >= 0, and
\* the total cost of the run is at most the total baseline cost.
C28_NeverCostlierThanBaseline ==
    (mode = "rule" /\ StartsInBand) =>
        /\ \A t \in 1 .. Len(steps) :
              /\ steps[t].cost <= BaselineCost(t)
              /\ steps[t].savings = BaselineCost(t) - steps[t].cost
              /\ steps[t].savings >= 0
              /\ Reports[t].savings >= 0
        /\ result.total_cost
              <= SumTo([t \in 1 .. Len(steps) |-> BaselineCost(t)], Len(steps))

\* a finished rule-mode run started within the bounds with an hour in which
\* the surplus was sold and an hour in which the battery covered a part of
\* the deficit: its total cost is below the baseline's
C28_Witness ==
    /\ mode = "rule"
    /\ pc = "done"
    /\ StartsInBand
    /\ \E t \in 1 .. Len(steps) :
          steps[t].action = SELL_TO_GRID /\ steps[t].cost < 0
    /\ \E t \in 1 .. Len(steps) :
          /\ steps[t].action = DISCHARGE_BATTERY
          /\ 0 < steps[t].cost
          /\ steps[t].cost < BaselineCost(t)

(***************************************************************************)
(* The MILP on any positive prices (SpecPosed)                             *)
(***************************************************************************)
\* the hour whose grid flows were raised
RaisedHour == environments[last.before]

\* C29: for environments with solar >= 0, load >= 0 and price > 0 and an
\* initial charge within the SOC bounds, the model has a feasible point and
\* its objective is bounded below: no feasible point gets cheaper when
\* grid_import[t] and grid_export[t] are raised together.
C29_WellPosed ==
    /\ FeasiblePoint(environments, initial_battery, PointAt(1, 0))
    /\ last.op = "raise" => (last.feasible => last.second >= last.first)

\* what the code keeps of C29: the model is feasible, and no point gets
\* cheaper along the two grid flows of an hour whose price is at least the
\* export price; where the price is below it, the raised point is feasible
\* and cheaper by amount * (GRID_EXPORT_PRICE - price), for every amount
C29_BoundedFromExportPrice ==
    /\ FeasiblePoint(environments, initial_battery, PointAt(1, 0))
    /\ last.op = "raise" =>
          /\ last.feasible
          /\ last.second - last.first
                = last.arg * (RaisedHour.price - GRID_EXPORT_PRICE)

\* a feasible point of an hour priced below the export price got cheaper
\* by raising both grid flows by 50 kWh
C29_Unbounded ==
    /\ last.op = "raise"
    /\ last.arg = 50 * KWH
    /\ RaisedHour.price < GRID_EXPORT_PRICE
    /\ last.feasible
    /\ last.second < last.first


(***************************************************************************)
(* C30.  Forecast lookup terminates: whatever the load outcomes of the two *)
(* models (both loaded, exactly one predictor in fallback, both in         *)
(* fallback), a lookup in progress returns, no call of it meets the        *)
(* interpreter's limit of frames, and the simulator that a predictor's     *)
(* _fallback_predict creates never enters a _fallback_predict again: at    *)
(* most one frame of _fallback_predict is on the stack.                    *)
(***************************************************************************)
RECURSIVE Nesting(_)
Nesting(frames) ==
    IF frames = <<>> THEN 0
    ELSE Nesting(Tail(frames))
           + (IF Head(frames).fn = "_fallback_predict" THEN 1 ELSE 0)

C30_LookupTerminates ==
    /\ [](/\ Nesting(stack) <= 1
          /\ Len(stack) < RecursionLimit
          /\ \A i \in 1 .. Len(stack) : stack[i].result # "RecursionError")
    /\ (stack # <<>>) ~> (stack = <<>>)

\* a lookup on a simulator that asked for the forecasts has returned while
\* exactly one predictor of the ModelManager is in fallback
C30_Witness ==
    /\ last.op = "returned"
    /\ last.which \in Generators
    /\ cls._instance # 0
    /\ objects[1].solar # objects[1].consumption

\* a predictor's fallback has created its simulator and is inside it
C30_FallbackNested ==
    /\ Nesting(stack) = 1
    /\ Top.fn \in Generators
====
